---- MODULE Spec2Model ----
(***************************************************************************)
(* Model of the logicall-ai configuration resolution and HTTP tools:      *)
(*   - src/src/profile_resolver.py  (profile resolution, record cache)     *)
(*   - src/src/tools.py             (HTTP tool validation and execution)   *)
(*   - src/src/agent.py             (session limit enforcer)               *)
(*                                                                         *)
(* Python values are modelled as tagged records:                           *)
(*   None  [t |-> "none"]          bool  [t |-> "bool",  b |-> TRUE]        *)
(*   int   [t |-> "int", i |-> 5]  float [t |-> "float", f |-> <<chars>>]   *)
(*   str   [t |-> "str", s |-> "word"]   (a string used as a whole)        *)
(*   str   [t |-> "str", c |-> <<chars>>] (a string the code looks into)   *)
(*   dict  [t |-> "dict", d |-> [key |-> value]]                           *)
(*   list  [t |-> "list", l |-> <<values>>]                                *)
(* A raised exception is [t |-> "raise", e |-> "<exception class>"].       *)
(***************************************************************************)
EXTENDS Integers, Sequences, FiniteSets, TLC

VARIABLES
    table,          \* DynamoDB table: key string "pk|sk" -> item or NoItem
    cache,          \* _PROFILE_CACHE: cache_key -> decoded profile record
    lastResolve,    \* observation of the latest resolve_profile call
    seen,           \* per triple: result of the first call that found its record
    inflight,       \* resolve_profile calls in progress: call id -> its locals
    pfetch,         \* observation of the latest _fetch_preset call
    built,          \* observation of the latest _resolve_*_model call
    ctor,           \* _construct_with_supported_kwargs call in progress: its locals
    decode_call,    \* observation of the latest _dynamodb_item_to_dict call
    tresolve,       \* observation of the latest resolve_tools call
    compiled,       \* the HttpToolDefinition of the compiled HTTP tool under call
    tcall,          \* observation of the latest compiled HTTP tool invocation
    pc,             \* my_agent position: "idle", "started", "enforcing", "cleanup"
                    \* (the shutdown callback awaits the timer), "closed", "cleanup_raised"
    limits,         \* profile.limits of the running session
    limit_state,    \* agent.py limit_state dict
    now,            \* time.time(), whole seconds since session.start
    timeout_task,   \* "none", "sleeping", "cancelling" (cancel requested), "done", "cancelled"
    deadline,       \* time at which the duration timer's sleep ends
    shutdown_calls, \* number of session.shutdown(drain=True) calls by the enforcer
    reasons,        \* the reason of every call of _trigger_shutdown, in order
    logged,         \* the reasons of the "Profile limit reached" warnings logged, in order
    executed,       \* function calls the session has executed since session.start
    recorded        \* the time.time() of every call the handler has counted, in order

profileVars == <<table, cache, lastResolve, seen, inflight>>
toolVars    == <<tresolve, compiled, tcall>>
builderVars == <<pfetch, built, ctor, decode_call>>
limitVars   == <<pc, limits, limit_state, now, timeout_task, deadline, shutdown_calls, reasons, logged,
                 executed, recorded>>
vars        == <<table, cache, lastResolve, seen, inflight, pfetch, built, ctor, decode_call,
                 tresolve, compiled, tcall, pc, limits,
                 limit_state, now, timeout_task, deadline, shutdown_calls, reasons, logged,
                 executed, recorded>>

(***************************************************************************)
(* Python values                                                           *)
(***************************************************************************)
None_ == [t |-> "none"]
PBool(b) == [t |-> "bool", b |-> b]
PInt(i) == [t |-> "int", i |-> i]
PFloat(chars) == [t |-> "float", f |-> chars]
Str(s) == [t |-> "str", s |-> s]
StrC(chars) == [t |-> "str", c |-> chars]
Dict(f) == [t |-> "dict", d |-> f]
List(l) == [t |-> "list", l |-> l]
Raise(e) == [t |-> "raise", e |-> e]
EmptyDict == Dict(<<>>)

IsDict(v) == v.t = "dict"
IsStr(v) == v.t = "str"
IsRaise(v) == v.t = "raise"

\* bool(v): Python truthiness, as used by `not x`, `x or y`, `if x`
Truthy(v) ==
    CASE v.t = "none"  -> FALSE
      [] v.t = "bool"  -> v.b
      [] v.t = "int"   -> v.i # 0
      [] v.t = "float" -> v.f \notin {<<"0", ".", "0">>, <<"0">>}
      [] v.t = "str"   -> IF "s" \in DOMAIN v THEN v.s # "" ELSE v.c # <<>>
      [] v.t = "dict"  -> DOMAIN v.d # {}
      [] v.t = "list"  -> v.l # <<>>
      [] OTHER         -> TRUE

\* x or y
Or(x, y) == IF Truthy(x) THEN x ELSE y

\* dict.get(key, default) on a Python dict
Get(dict, key, default) == IF key \in DOMAIN dict.d THEN dict.d[key] ELSE default

(***************************************************************************)
(* int(num_str) / float(num_str) on the characters of a number string      *)
(***************************************************************************)
Digits == {"0", "1", "2", "3", "4", "5", "6", "7", "8", "9"}
DigitVal(ch) ==
    CASE ch = "0" -> 0 [] ch = "1" -> 1 [] ch = "2" -> 2 [] ch = "3" -> 3
      [] ch = "4" -> 4 [] ch = "5" -> 5 [] ch = "6" -> 6 [] ch = "7" -> 7
      [] ch = "8" -> 8 [] ch = "9" -> 9

HasDot(chars) == \E i \in DOMAIN chars : chars[i] = "."

Unsigned(chars) == IF chars # <<>> /\ chars[1] \in {"-", "+"} THEN Tail(chars) ELSE chars

\* int(s) succeeds: optional sign, then one or more digits
IsIntLiteral(chars) ==
    /\ Unsigned(chars) # <<>>
    /\ \A i \in DOMAIN Unsigned(chars) : Unsigned(chars)[i] \in Digits

\* float(s) succeeds (decimal forms): optional sign, digits with at most one point
IsFloatLiteral(chars) ==
    LET u == Unsigned(chars) IN
    /\ \E i \in DOMAIN u : u[i] \in Digits
    /\ \A i \in DOMAIN u : u[i] \in Digits \cup {"."}
    /\ Cardinality({i \in DOMAIN u : u[i] = "."}) <= 1

RECURSIVE DigitsValue(_)
DigitsValue(chars) ==
    IF chars = <<>> THEN 0
    ELSE DigitsValue(SubSeq(chars, 1, Len(chars) - 1)) * 10 + DigitVal(chars[Len(chars)])

ParseInt(chars) ==
    IF chars[1] = "-" THEN 0 - DigitsValue(Unsigned(chars)) ELSE DigitsValue(Unsigned(chars))

(***************************************************************************)
(* profile_resolver._dynamodb_item_to_dict                                 *)
(* A stored item is a Python dict of attribute name -> {tag: payload}.     *)
(***************************************************************************)
HasTag(value, tag) == tag \in DOMAIN value.d

\* the branch taken for {"N": num_str}: int when no ".", float otherwise,
\* and the string itself when the conversion raises ValueError
DecodeNumber(num_str) ==
    IF HasDot(num_str.c)
    THEN (IF IsFloatLiteral(num_str.c) THEN PFloat(num_str.c) ELSE num_str)
    ELSE (IF IsIntLiteral(num_str.c) THEN PInt(ParseInt(num_str.c)) ELSE num_str)

RECURSIVE dynamodb_item_to_dict(_)
\* one element of an "L" list (profile_resolver.py lines 246-247)
DecodeListElement(v) ==
    IF HasTag(v, "M")
    THEN dynamodb_item_to_dict(Dict("item" :> v)).d["item"]
    ELSE Or(Or(Or(Get(v, "S", None_), Get(v, "N", None_)), Get(v, "BOOL", None_)), None_)

\* the if/elif chain applied to one attribute value
DecodeAttribute(value) ==
    IF HasTag(value, "S") THEN value.d["S"]
    ELSE IF HasTag(value, "N") THEN DecodeNumber(value.d["N"])
    ELSE IF HasTag(value, "BOOL") THEN value.d["BOOL"]
    ELSE IF HasTag(value, "NULL") THEN None_
    ELSE IF HasTag(value, "M") THEN dynamodb_item_to_dict(value.d["M"])
    ELSE IF HasTag(value, "L")
         THEN List([i \in DOMAIN value.d["L"].l |-> DecodeListElement(value.d["L"].l[i])])
    ELSE IF HasTag(value, "SS") THEN List(value.d["SS"].l)
    ELSE IF HasTag(value, "NS")
         THEN List([i \in DOMAIN value.d["NS"].l |->
                 IF HasDot(value.d["NS"].l[i].c) THEN PFloat(value.d["NS"].l[i].c)
                 ELSE PInt(ParseInt(value.d["NS"].l[i].c))])
    ELSE Str("str(value)")

dynamodb_item_to_dict(item) ==
    Dict([key \in DOMAIN item.d |-> DecodeAttribute(item.d[key])])

\* tagged attribute values as the store returns them
AttrS(s) == Dict("S" :> Str(s))
AttrN(chars) == Dict("N" :> StrC(chars))
AttrBOOL(b) == Dict("BOOL" :> PBool(b))
AttrNULL == Dict("NULL" :> PBool(TRUE))
AttrM(f) == Dict("M" :> Dict(f))
AttrL(l) == Dict("L" :> List(l))

(***************************************************************************)
(* json.loads on the JSON texts that occur in the model.  Each text is a   *)
(* concrete document; the decoded value is what json.loads returns for it, *)
(* and a text that is no JSON document raises JSONDecodeError.             *)
(***************************************************************************)
JsonBehavior == "{\"allow_interruptions\": false, \"max_tool_steps\": 5}"
JsonRoom == "{\"audio_input\": {\"sample_rate\": 16000}, \"text_output\": false, \"video_input\": true}"
JsonConn == "{\"max_unrecoverable_errors\": 5}"
JsonEmptyObject == "{}"
JsonArray == "[1]"
JsonNumber == "5"
JsonNull == "null"
JsonBroken == "{\"max_tool_steps\": "
JsonEmptyText == ""
JsonPathId == "{\"id\": \"a/b\"}"
JsonPathIdKind == "{\"id\": \"a/b\", \"kind\": \"x?y\"}"
JsonQueryQ == "{\"q\": \"1\"}"
JsonQueryQX == "{\"q\": \"1\", \"x\": \"2\"}"
JsonQueryAlias == "{\"current_weather\": \"1\"}"
JsonBodyNote == "{\"note\": \"hi\"}"
JsonHeaderTrace == "{\"X-Trace\": \"t1\"}"
JsonHeaderAuth == "{\"Authorization\": \"k1\"}"
JsonHeaderBoth == "{\"X-Trace\": \"t1\", \"Authorization\": \"k1\"}"
RespObject == "{\"temp\": 21, \"secret\": \"k1\"}"
RespObjectOther == "{\"temp\": 21, \"secret\": \"k2\", \"debug\": true}"
RespArray == "[{\"secret\": \"k1\"}]"
RespHtml == "<html>secret k1</html>"
RespTruncated == "{\"temp\": 21, \"secret\": \"k1"
RespUndecodable == "?PNG??"

\* the nesting depth at which the decoder's recursion guard raises
RecursionLimit == 3
RECURSIVE Repeat(_, _)
Repeat(ch, n) == IF n = 0 THEN <<>> ELSE <<ch>> \o Repeat(ch, n - 1)
RECURSIVE Join(_)
Join(chars) == IF chars = <<>> THEN "" ELSE chars[1] \o Join(Tail(chars))
\* arrays nested deeper than the guard allows
ArgDeep == Repeat("[", RecursionLimit + 1)
JsonDeep == Join(ArgDeep)

json_loads(text) ==
    CASE text = JsonBehavior ->
            Dict(("allow_interruptions" :> PBool(FALSE)) @@ ("max_tool_steps" :> PInt(5)))
      [] text = JsonRoom ->
            Dict(("audio_input" :> Dict("sample_rate" :> PInt(16000)))
                 @@ ("text_output" :> PBool(FALSE)) @@ ("video_input" :> PBool(TRUE)))
      [] text = JsonConn -> Dict("max_unrecoverable_errors" :> PInt(5))
      [] text = JsonEmptyObject -> EmptyDict
      [] text = JsonArray -> List(<<PInt(1)>>)
      [] text = JsonNumber -> PInt(5)
      [] text = JsonNull -> None_
      [] text = JsonPathId -> Dict("id" :> StrC(<<"a", "/", "b">>))
      [] text = JsonPathIdKind ->
            Dict(("id" :> StrC(<<"a", "/", "b">>)) @@ ("kind" :> StrC(<<"x", "?", "y">>)))
      [] text = JsonQueryQ -> Dict("q" :> StrC(<<"1">>))
      [] text = JsonQueryQX -> Dict(("q" :> StrC(<<"1">>)) @@ ("x" :> StrC(<<"2">>)))
      [] text = JsonQueryAlias -> Dict("current_weather" :> StrC(<<"1">>))
      [] text = JsonBodyNote -> Dict("note" :> StrC(<<"h", "i">>))
      [] text = JsonHeaderTrace -> Dict("X-Trace" :> StrC(<<"t", "1">>))
      [] text = JsonHeaderAuth -> Dict("Authorization" :> StrC(<<"k", "1">>))
      [] text = JsonHeaderBoth ->
            Dict(("X-Trace" :> StrC(<<"t", "1">>)) @@ ("Authorization" :> StrC(<<"k", "1">>)))
      [] text = RespObject -> Dict(("temp" :> PInt(21)) @@ ("secret" :> StrC(<<"k", "1">>)))
      [] text = RespObjectOther ->
            Dict(("temp" :> PInt(21)) @@ ("secret" :> StrC(<<"k", "2">>))
                 @@ ("debug" :> PBool(TRUE)))
      [] text = RespArray -> List(<<Dict("secret" :> StrC(<<"k", "1">>))>>)
      [] text = JsonDeep -> Raise("RecursionError")
      [] OTHER -> Raise("JSONDecodeError")

\* json.dumps(value), on the objects the model sends as a request body
json_dumps(value) ==
    CASE value = EmptyDict -> JsonEmptyObject
      [] value = Dict("note" :> StrC(<<"h", "i">>)) -> JsonBodyNote

(***************************************************************************)
(* profile_resolver._build_profile_config                                  *)
(***************************************************************************)
\* any(isinstance(v, dict) and any(k in v for k in tags) for v in raw.values())
is_dynamodb_format(raw, tags) ==
    \E k \in DOMAIN raw.d : IsDict(raw.d[k]) /\ (DOMAIN raw.d[k].d \cap tags) # {}

\* _parse_preset_ref(preset_data_raw, default_id)
parse_preset_ref(preset_data_raw, default_id) ==
    IF ~Truthy(preset_data_raw) THEN None_
    ELSE LET preset_data ==
                 IF IsDict(preset_data_raw) /\ is_dynamodb_format(preset_data_raw, {"S", "N", "BOOL", "M"})
                 THEN dynamodb_item_to_dict(Dict("preset" :> preset_data_raw)).d["preset"]
                 ELSE preset_data_raw
         IN  IF ~IsDict(preset_data) THEN Raise("AttributeError")
             ELSE [t |-> "PresetRef",
                   id |-> Get(preset_data, "id", Str(default_id)),
                   version |-> Get(preset_data, "version", None_)]

\* limits_data of lines 309-317
limits_data_of(profile_data) ==
    LET limits_data_raw == Get(profile_data, "limits", EmptyDict) IN
    IF IsDict(limits_data_raw)
    THEN (IF is_dynamodb_format(limits_data_raw, {"S", "N", "BOOL"})
          THEN dynamodb_item_to_dict(Dict("limits" :> limits_data_raw)).d["limits"]
          ELSE limits_data_raw)
    ELSE EmptyDict

\* the "dict or JSON string" decoding shared by session_behavior (327-335),
\* room_options (358-366) and conn_options (437-445)
section_data(profile_data, name) ==
    LET raw == Get(profile_data, name, EmptyDict) IN
    IF IsStr(raw)
    THEN (IF IsRaise(json_loads(raw.s)) THEN EmptyDict ELSE json_loads(raw.s))
    ELSE raw

\* SessionBehaviorConfig(...) keyword defaults of lines 337-354
SessionBehaviorDefaults ==
    [allow_interruptions |-> PBool(TRUE),
     discard_audio_if_uninterruptible |-> PBool(TRUE),
     min_interruption_duration |-> PFloat(<<"0", ".", "5">>),
     min_interruption_words |-> PInt(0),
     min_endpointing_delay |-> PFloat(<<"0", ".", "5">>),
     max_endpointing_delay |-> PFloat(<<"3", ".", "0">>),
     false_interruption_timeout |-> PFloat(<<"2", ".", "0">>),
     resume_false_interruption |-> PBool(TRUE),
     min_consecutive_speech_delay |-> PFloat(<<"0", ".", "0">>),
     user_away_timeout |-> PFloat(<<"1", "5", ".", "0">>),
     max_tool_steps |-> PInt(3),
     use_tts_aligned_transcript |-> None_,
     tts_text_transforms |-> None_,
     preemptive_generation |-> PBool(FALSE),
     ivr_detection |-> PBool(FALSE),
     turn_detection |-> None_]

\* a dataclass built from data.get(field, default) for each field
FromDefaults(data, defaults) ==
    [k \in DOMAIN defaults |-> Get(data, k, defaults[k])]

AudioInputDefaults ==
    [sample_rate |-> PInt(24000), num_channels |-> PInt(1), frame_size_ms |-> PInt(50),
     noise_cancellation |-> None_, pre_connect_audio |-> PBool(TRUE),
     pre_connect_audio_timeout |-> PFloat(<<"3", ".", "0">>)]
AudioOutputDefaults ==
    [sample_rate |-> PInt(24000), num_channels |-> PInt(1), track_name |-> None_]
TextInputDefaults == [enabled |-> PBool(TRUE)]
TextOutputDefaults ==
    [enabled |-> PBool(TRUE), sync_transcription |-> None_,
     transcription_speed_factor |-> PFloat(<<"1", ".", "0">>)]
VideoInputOptions == [t |-> "VideoInputOptions", enabled |-> PBool(FALSE)]

\* a channel that is an options object, False, or True by default (lines 369-414)
channel_option(room_data, name, defaults, kind) ==
    LET v == Get(room_data, name, None_) IN
    IF IsDict(v) THEN [t |-> kind, o |-> FromDefaults(v, defaults)]
    ELSE IF v = PBool(FALSE) THEN PBool(FALSE)
    ELSE PBool(TRUE)

\* lines 417-421
video_option(room_data) ==
    LET v == Get(room_data, "video_input", None_) IN
    IF IsDict(v) THEN VideoInputOptions
    ELSE IF v = PBool(TRUE) THEN VideoInputOptions
    ELSE PBool(FALSE)

RoomIOConfig(room_data) ==
    [t |-> "RoomIOConfig",
     text_input |-> channel_option(room_data, "text_input", TextInputDefaults, "TextInputOptions"),
     audio_input |-> channel_option(room_data, "audio_input", AudioInputDefaults, "AudioInputOptions"),
     video_input |-> video_option(room_data),
     audio_output |-> channel_option(room_data, "audio_output", AudioOutputDefaults, "AudioOutputOptions"),
     text_output |-> channel_option(room_data, "text_output", TextOutputDefaults, "TextOutputOptions"),
     participant_kinds |-> Get(room_data, "participant_kinds", None_),
     participant_identity |-> Get(room_data, "participant_identity", None_),
     close_on_disconnect |-> Get(room_data, "close_on_disconnect", PBool(TRUE)),
     delete_room_on_close |-> Get(room_data, "delete_room_on_close", PBool(FALSE))]

ProfileLimits(limits_data) ==
    [t |-> "ProfileLimits",
     max_minutes |-> Get(limits_data, "max_minutes", None_),
     max_tool_calls |-> Get(limits_data, "max_tool_calls", None_),
     max_tool_calls_per_minute |-> Get(limits_data, "max_tool_calls_per_minute", None_)]

build_profile_config(profile_data) ==
    LET llm_ref == parse_preset_ref(Get(profile_data, "llm_preset_ref", None_), "gpt-5.1")
        stt_ref == parse_preset_ref(Get(profile_data, "stt_preset_ref", None_), "nova-3")
        tts_ref == parse_preset_ref(Get(profile_data, "tts_preset_ref", None_), "sonic-3")
        realtime_ref == parse_preset_ref(Get(profile_data, "realtime_preset_ref", None_),
                                         "amazon.nova-2-sonic-v1:0")
        behavior_data == section_data(profile_data, "session_behavior")
        room_data == section_data(profile_data, "room_options")
        conn_data == section_data(profile_data, "conn_options")
    IN
    IF \E r \in {llm_ref, stt_ref, tts_ref, realtime_ref} : IsRaise(r)
    THEN Raise("AttributeError")
    \* behavior_data.get / room_data.get / conn_data.get on a value that is no dict
    ELSE IF ~IsDict(behavior_data) THEN Raise("AttributeError")
    ELSE IF ~IsDict(room_data) THEN Raise("AttributeError")
    ELSE IF ~IsDict(conn_data) THEN Raise("AttributeError")
    ELSE
    [t |-> "AgentProfileConfig",
     profile_id |-> Get(profile_data, "profile_id", Str("default")),
     version |-> Get(profile_data, "version", Str("1")),
     tenant_id |-> Get(profile_data, "tenant_id", Str("default")),
     mode |-> Get(profile_data, "mode", Str("realtime")),
     system_prompt |-> Get(profile_data, "system_prompt", Str("You are a helpful assistant.")),
     language |-> Get(profile_data, "language", Str("en")),
     llm_preset_ref |-> llm_ref,
     stt_preset_ref |-> stt_ref,
     tts_preset_ref |-> tts_ref,
     realtime_preset_ref |-> realtime_ref,
     tool_refs |-> Get(profile_data, "tool_refs", List(<<>>)),
     limits |-> ProfileLimits(limits_data_of(profile_data)),
     session_behavior |-> [t |-> "SessionBehaviorConfig",
                           o |-> FromDefaults(behavior_data, SessionBehaviorDefaults)],
     room_options |-> RoomIOConfig(room_data),
     conn_options |-> [t |-> "ConnectionOptions",
                       max_unrecoverable_errors |-> Get(conn_data, "max_unrecoverable_errors", PInt(3))],
     created_at |-> Get(profile_data, "created_at", None_),
     updated_at |-> Get(profile_data, "updated_at", None_),
     status |-> Get(profile_data, "status", Str("active"))]

\* config.get_default_profile()
get_default_profile ==
    [t |-> "AgentProfileConfig",
     profile_id |-> Str("default"),
     version |-> Str("1"),
     tenant_id |-> Str("default"),
     mode |-> Str("realtime"),
     system_prompt |-> Str("You are a helpful voice AI assistant. ..."),
     language |-> Str("en"),
     llm_preset_ref |-> [t |-> "PresetRef", id |-> Str("gpt-5.1"), version |-> Str("1")],
     stt_preset_ref |-> [t |-> "PresetRef", id |-> Str("nova-3"), version |-> Str("1")],
     tts_preset_ref |-> [t |-> "PresetRef", id |-> Str("sonic-3"), version |-> Str("1")],
     realtime_preset_ref |-> [t |-> "PresetRef", id |-> Str("amazon.nova-2-sonic-v1:0"),
                              version |-> Str("1")],
     tool_refs |-> List(<<Str("http:weather_geocode@1"), Str("http:weather_current@1")>>),
     limits |-> [t |-> "ProfileLimits", max_minutes |-> PInt(30), max_tool_calls |-> PInt(50),
                 max_tool_calls_per_minute |-> PInt(10)],
     session_behavior |-> [t |-> "SessionBehaviorConfig", o |-> SessionBehaviorDefaults],
     room_options |-> [t |-> "RoomIOConfig",
                       text_input |-> PBool(TRUE),
                       audio_input |-> [t |-> "AudioInputOptions", o |-> AudioInputDefaults],
                       video_input |-> PBool(FALSE),
                       audio_output |-> [t |-> "AudioOutputOptions", o |-> AudioOutputDefaults],
                       text_output |-> [t |-> "TextOutputOptions", o |-> TextOutputDefaults],
                       participant_kinds |-> None_,
                       participant_identity |-> None_,
                       close_on_disconnect |-> PBool(TRUE),
                       delete_room_on_close |-> PBool(FALSE)],
     conn_options |-> [t |-> "ConnectionOptions", max_unrecoverable_errors |-> PInt(3)],
     created_at |-> None_,
     updated_at |-> None_,
     status |-> Str("active")]

(***************************************************************************)
(* The store (one DynamoDB table) and the lookups of profile_resolver.py   *)
(***************************************************************************)
NoItem == [t |-> "absent"]

\* outcome of one client.get_item call: it returns, or raises
StoreOutcomes == {"ok", "ClientError", "Exception"}

\* client.get_item(TableName, Key={"pk": ..., "sk": ...})
get_item(tbl, pk, sk, outcome) ==
    LET key == [pk |-> pk, sk |-> sk] IN
    IF outcome # "ok" THEN Raise(outcome)
    ELSE IF key \in DOMAIN tbl /\ tbl[key] # NoItem
         THEN [t |-> "response", Item |-> tbl[key]]
         ELSE [t |-> "response"]

\* _get_default_profile_id: str | None
get_default_profile_id(tbl, tenant_id, outcome) ==
    LET response == get_item(tbl, "TENANT#" \o tenant_id, "PROFILE_DEFAULT", outcome) IN
    IF IsRaise(response) THEN None_
    ELSE IF "Item" \notin DOMAIN response THEN None_
    ELSE Get(Get(response.Item, "profile_id", EmptyDict), "S", None_)

\* a variant of _get_latest_profile_version that falls back to version "1"
\* instead of None when the pointer read fails or misses
get_latest_profile_version_fallback_v1(tbl, tenant_id, profile_id, outcome) ==
    LET response == get_item(tbl, "TENANT#" \o tenant_id,
                             "PROFILE_LATEST#" \o profile_id, outcome) IN
    IF IsRaise(response) THEN Str("1")
    ELSE IF "Item" \notin DOMAIN response THEN Str("1")
    ELSE Get(Get(response.Item, "latest_version", EmptyDict), "S", None_)

\* _get_latest_profile_version: str | None
get_latest_profile_version(tbl, tenant_id, profile_id, outcome) ==
    LET response == get_item(tbl, "TENANT#" \o tenant_id,
                             "PROFILE_LATEST#" \o profile_id, outcome) IN
    IF IsRaise(response) THEN None_
    ELSE IF "Item" \notin DOMAIN response THEN None_
    ELSE Get(Get(response.Item, "latest_version", EmptyDict), "S", None_)

\* cache_key = f"{tenant_id}:{profile_id}:{version}"
cache_key_of(tenant_id, profile_id, version) ==
    tenant_id \o ":" \o profile_id \o ":" \o version

\* a variant of _fetch_profile that never stores the record in the cache
fetch_profile_uncached(tbl, cch, tenant_id, profile_id, version, outcome) ==
    LET cache_key == tenant_id \o ":" \o profile_id \o ":" \o version
        response == get_item(tbl, "TENANT#" \o tenant_id,
                             "PROFILE#" \o profile_id \o "#V#" \o version, outcome)
    IN
    IF cache_key \in DOMAIN cch
    THEN [data |-> cch[cache_key], cache |-> cch, store_read |-> FALSE]
    ELSE IF IsRaise(response) \/ "Item" \notin DOMAIN response
    THEN [data |-> None_, cache |-> cch, store_read |-> TRUE]
    ELSE [data |-> dynamodb_item_to_dict(response.Item), cache |-> cch, store_read |-> TRUE]

\* a variant of _fetch_profile that reads the store on every call and
\* refreshes the cache entry with what it read
fetch_profile_refreshing(tbl, cch, tenant_id, profile_id, version, outcome) ==
    LET cache_key == cache_key_of(tenant_id, profile_id, version)
        response == get_item(tbl, "TENANT#" \o tenant_id,
                             "PROFILE#" \o profile_id \o "#V#" \o version, outcome)
    IN
    IF IsRaise(response) \/ "Item" \notin DOMAIN response
    THEN IF cache_key \in DOMAIN cch
         THEN [data |-> cch[cache_key], cache |-> cch, store_read |-> TRUE]
         ELSE [data |-> None_, cache |-> cch, store_read |-> TRUE]
    ELSE [data |-> dynamodb_item_to_dict(response.Item),
          cache |-> [k \in DOMAIN cch \cup {cache_key} |->
                        IF k = cache_key THEN dynamodb_item_to_dict(response.Item)
                        ELSE cch[k]],
          store_read |-> TRUE]

\* _fetch_profile: the record (or None), the cache afterwards, and whether
\* the profile body was read from the store
fetch_profile(tbl, cch, tenant_id, profile_id, version, outcome) ==
    LET cache_key == cache_key_of(tenant_id, profile_id, version)
        response == get_item(tbl, "TENANT#" \o tenant_id,
                             "PROFILE#" \o profile_id \o "#V#" \o version, outcome)
    IN
    IF cache_key \in DOMAIN cch
    THEN [data |-> cch[cache_key], cache |-> cch, store_read |-> FALSE]
    ELSE IF IsRaise(response)
    THEN [data |-> None_, cache |-> cch, store_read |-> TRUE]
    ELSE IF "Item" \notin DOMAIN response
    THEN [data |-> None_, cache |-> cch, store_read |-> TRUE]
    ELSE [data |-> dynamodb_item_to_dict(response.Item),
          cache |-> (cache_key :> dynamodb_item_to_dict(response.Item)) @@ cch,
          store_read |-> TRUE]

\* resolve_profile(tenant_id, profile_id, profile_version); profile_id and
\* profile_version are a Python str or None; outcomes gives the outcome of the
\* store read at each of the three lookups, if the call gets there.
\*   result      the returned AgentProfileConfig, or the exception raised
\*   degraded    the lookup that missed or failed, "none" if all succeeded
\*   triple      the (tenant, profile_id, version) whose body was looked up
resolve_profile(tbl, cch, tenant_id, profile_id, profile_version, outcomes) ==
    LET pid == IF profile_id = None_
               THEN get_default_profile_id(tbl, tenant_id, outcomes.default_ptr)
               ELSE profile_id
        ver == IF profile_version = None_
               THEN get_latest_profile_version(tbl, tenant_id, pid.s, outcomes.latest_ptr)
               ELSE profile_version
        fetched == fetch_profile(tbl, cch, tenant_id, pid.s, ver.s, outcomes.body)
    IN
    IF pid = None_
    THEN [result |-> get_default_profile, cache |-> cch, degraded |-> "default_ptr",
          triple |-> <<>>, store_read |-> FALSE]
    ELSE IF ver = None_
    THEN [result |-> get_default_profile, cache |-> cch, degraded |-> "latest_ptr",
          triple |-> <<>>, store_read |-> FALSE]
    ELSE IF fetched.data = None_
    THEN [result |-> get_default_profile, cache |-> fetched.cache, degraded |-> "body",
          triple |-> <<tenant_id, pid.s, ver.s>>, store_read |-> fetched.store_read]
    ELSE [result |-> build_profile_config(fetched.data), cache |-> fetched.cache,
          degraded |-> "none", triple |-> <<tenant_id, pid.s, ver.s>>,
          store_read |-> fetched.store_read]

(***************************************************************************)
(* Store contents and callers of the profile resolver                      *)
(***************************************************************************)
Tenants == {"default"}
ProfileIds == {"support"}
Versions == {"1"}

DefaultPtrKey(tenant_id) == [pk |-> "TENANT#" \o tenant_id, sk |-> "PROFILE_DEFAULT"]
LatestPtrKey(tenant_id, profile_id) ==
    [pk |-> "TENANT#" \o tenant_id, sk |-> "PROFILE_LATEST#" \o profile_id]
BodyKey(tenant_id, profile_id, version) ==
    [pk |-> "TENANT#" \o tenant_id, sk |-> "PROFILE#" \o profile_id \o "#V#" \o version]

DefaultPtrKeys == {DefaultPtrKey(t) : t \in Tenants}
LatestPtrKeys == {LatestPtrKey(t, p) : t \in Tenants, p \in ProfileIds}
BodyKeys == {BodyKey(t, p, v) : t \in Tenants, p \in ProfileIds, v \in Versions}
TableKeys == DefaultPtrKeys \cup LatestPtrKeys \cup BodyKeys

\* pointer records as migrations/002_seed_defaults.py writes them, and a
\* pointer record that lacks its attribute
DefaultPtrItems ==
    {Dict(("entity_type" :> AttrS("latest_pointer")) @@ ("profile_id" :> AttrS(p))) : p \in ProfileIds}
    \cup {Dict("entity_type" :> AttrS("latest_pointer"))}
LatestPtrItems ==
    {Dict(("entity_type" :> AttrS("latest_pointer")) @@ ("latest_version" :> AttrS(v))) :
        v \in Versions \cup {"2"}}

\* attributes every stored profile body of the model carries
ProfileCore(prompt, minutes) ==
    ("entity_type" :> AttrS("profile"))
    @@ ("profile_id" :> AttrS("support"))
    @@ ("mode" :> AttrS("pipeline"))
    @@ ("system_prompt" :> AttrS(prompt))
    @@ ("llm_preset_ref" :> AttrM(("id" :> AttrS("gpt-4.1-mini")) @@ ("version" :> AttrS("1"))))
    @@ ("tool_refs" :> AttrL(<<AttrS("hang_up")>>))
    @@ ("limits" :> AttrM(("max_minutes" :> AttrN(minutes)) @@ ("max_tool_calls" :> AttrN(<<"5", "0">>))))

\* the nested sections as JSON strings, the way the seed migration stores them
SeededItem ==
    Dict(ProfileCore("You are a support agent.", <<"3", "0">>)
         @@ ("session_behavior" :> AttrS(JsonBehavior))
         @@ ("room_options" :> AttrS(JsonRoom))
         @@ ("conn_options" :> AttrS(JsonConn)))
\* a later edit of the record: other prompt and limit, sections absent
EditedItem == Dict(ProfileCore("You are a sales agent.", <<"4", "5">>))

\* one nested section in a malformed shape, the other sections absent
SectionNames == {"session_behavior", "room_options", "conn_options"}
MalformedSectionValues ==
    {AttrNULL, AttrS(JsonBroken), AttrS(JsonEmptyText), AttrS(JsonArray), AttrS(JsonNumber),
     AttrS(JsonNull)}
MalformedItem(name, value) ==
    Dict(ProfileCore("You are a support agent.", <<"3", "0">>) @@ (name :> value))

BodyItems ==
    {SeededItem, EditedItem,
     MalformedItem("session_behavior", AttrNULL),
     MalformedItem("room_options", AttrS(JsonArray)),
     MalformedItem("conn_options", AttrS(JsonBroken)),
     MalformedItem("conn_options", AttrS(JsonNull))}

ItemsFor(key) ==
    IF key \in DefaultPtrKeys THEN DefaultPtrItems
    ELSE IF key \in LatestPtrKeys THEN LatestPtrItems
    ELSE BodyItems

\* profile_id / profile_version a caller (room metadata) may pass
ProfileIdArgs == {None_} \cup {Str(p) : p \in ProfileIds} \cup {Str("ghost")}
VersionArgs == {None_} \cup {Str(v) : v \in Versions} \cup {Str("2")}

NoCall == [t |-> "nocall"]

(***************************************************************************)
(* Actions of the profile resolver                                         *)
(***************************************************************************)
\* out-of-band configuration change: a record is written to the table
PutItem(key, item) ==
    /\ table[key] # item
    /\ table' = [table EXCEPT ![key] = item]
    /\ UNCHANGED <<cache, lastResolve, seen, inflight>>
    /\ UNCHANGED <<toolVars, builderVars, limitVars>>

\* out-of-band configuration change: a record is deleted from the table
DeleteItem(key) ==
    /\ table[key] # NoItem
    /\ table' = [table EXCEPT ![key] = NoItem]
    /\ UNCHANGED <<cache, lastResolve, seen, inflight>>
    /\ UNCHANGED <<toolVars, builderVars, limitVars>>

\* What the store did to one call, read off the table, the cache and the read
\* outcomes (not off the resolver's return values): the first lookup of the
\* call that missed or failed, "none" if every lookup the call made succeeded,
\* "malformed" if a pointer record was found without its attribute.
LookupMiss(tbl, cch, tenant_id, profile_id, profile_version, outcomes) ==
    LET ptr == tbl[DefaultPtrKey(tenant_id)]
        pid == IF profile_id # None_ THEN profile_id.s
               ELSE ptr.d["profile_id"].d["S"].s
        latest == IF LatestPtrKey(tenant_id, pid) \in DOMAIN tbl
                  THEN tbl[LatestPtrKey(tenant_id, pid)] ELSE NoItem
        ver == IF profile_version # None_ THEN profile_version.s
               ELSE latest.d["latest_version"].d["S"].s
        body == IF BodyKey(tenant_id, pid, ver) \in DOMAIN tbl
                THEN tbl[BodyKey(tenant_id, pid, ver)] ELSE NoItem
    IN
    IF profile_id = None_ /\ (outcomes.default_ptr # "ok" \/ ptr = NoItem) THEN "default_ptr"
    ELSE IF profile_id = None_ /\ "profile_id" \notin DOMAIN ptr.d THEN "malformed"
    ELSE IF profile_version = None_ /\ (outcomes.latest_ptr # "ok" \/ latest = NoItem)
    THEN "latest_ptr"
    ELSE IF cache_key_of(tenant_id, pid, ver) \notin DOMAIN cch
            /\ (outcomes.body # "ok" \/ body = NoItem)
    THEN "body"
    ELSE "none"

\* one call of resolve_profile, with the outcome of each store read
ResolveProfile(tenant_id, profile_id, profile_version, outcomes) ==
    \E r \in {resolve_profile(table, cache, tenant_id, profile_id, profile_version, outcomes)} :
    /\ cache' = r.cache
    /\ lastResolve' = [tenant_id |-> tenant_id, profile_id |-> profile_id,
                       profile_version |-> profile_version,
                       triple |-> r.triple, degraded |-> r.degraded,
                       store_read |-> r.store_read, result |-> r.result,
                       missed |-> LookupMiss(table, cache, tenant_id, profile_id,
                                             profile_version, outcomes),
                       prior |-> IF r.triple \in DOMAIN seen THEN seen[r.triple] ELSE NoCall]
    /\ seen' = IF r.degraded = "none" /\ r.triple \notin DOMAIN seen
               THEN (r.triple :> r.result) @@ seen ELSE seen
    /\ UNCHANGED <<table, inflight>>
    /\ UNCHANGED <<toolVars, builderVars, limitVars>>

\* the outcomes of the three store reads of one call; reads after a failed or
\* missed lookup never happen, so one failing site per call covers all cases
OutcomeChoices ==
    {[default_ptr |-> "ok", latest_ptr |-> "ok", body |-> "ok"]}
    \cup {[default_ptr |-> o, latest_ptr |-> "ok", body |-> "ok"] : o \in StoreOutcomes}
    \cup {[default_ptr |-> "ok", latest_ptr |-> o, body |-> "ok"] : o \in StoreOutcomes}
    \cup {[default_ptr |-> "ok", latest_ptr |-> "ok", body |-> o] : o \in StoreOutcomes}

InitProfile ==
    /\ table = [k \in TableKeys |-> NoItem]
    /\ cache = <<>>
    /\ lastResolve = NoCall
    /\ seen = <<>>
    /\ inflight = <<>>

InitTools ==
    /\ tresolve = NoCall
    /\ compiled = None_
    /\ tcall = NoCall
    /\ pfetch = NoCall
    /\ built = NoCall
    /\ ctor = NoCall
    /\ decode_call = NoCall

InitLimits ==
    /\ pc = "idle"
    /\ limits = None_
    /\ limit_state = None_
    /\ now = 0
    /\ timeout_task = "none"
    /\ deadline = 0
    /\ shutdown_calls = 0
    /\ reasons = <<>>
    /\ logged = <<>>
    /\ executed = 0
    /\ recorded = <<>>

Init == InitProfile /\ InitTools /\ InitLimits

NextProfile ==
    \/ \E key \in TableKeys : \E item \in ItemsFor(key) : PutItem(key, item)
    \/ \E key \in TableKeys : DeleteItem(key)
    \/ \E tenant_id \in Tenants, profile_id \in ProfileIdArgs, profile_version \in VersionArgs,
          outcomes \in OutcomeChoices :
          ResolveProfile(tenant_id, profile_id, profile_version, outcomes)

SpecProfile == Init /\ [][NextProfile]_vars

(***************************************************************************)
(* Claims on the profile resolver                                          *)
(***************************************************************************)
IsProfile(v) == v.t = "AgentProfileConfig"

\* every section of a returned profile is a populated record
SectionsPopulated(profile) ==
    /\ profile.limits.t = "ProfileLimits"
    /\ profile.session_behavior.t = "SessionBehaviorConfig"
    /\ DOMAIN profile.session_behavior.o = DOMAIN SessionBehaviorDefaults
    /\ profile.room_options.t = "RoomIOConfig"
    /\ profile.conn_options.t = "ConnectionOptions"

\* C1: for every stored profile record reached by the lookup, whatever the
\* shape of its session_behavior, room_options and conn_options sections,
\* resolve_profile does not raise and returns a profile whose limits,
\* session_behavior, room_options and conn_options are populated records.
C1_MalformedSectionsDegrade ==
    (lastResolve # NoCall /\ lastResolve.missed = "none")
        => /\ IsProfile(lastResolve.result)
           /\ SectionsPopulated(lastResolve.result)

\* C2: whenever the PROFILE_DEFAULT pointer lookup (profile_id absent), the
\* PROFILE_LATEST pointer lookup (profile_version absent) or the profile body
\* lookup misses or fails with a store error, resolve_profile does not raise
\* and returns exactly get_default_profile().
C2_LookupMissReturnsDefault ==
    (lastResolve # NoCall /\ lastResolve.missed \in {"default_ptr", "latest_ptr", "body"})
        => lastResolve.result = get_default_profile

\* C2 witness: a call whose body read failed with a store error while the
\* record was in the table, and which returned the default profile
C2_Witness ==
    /\ lastResolve # NoCall
    /\ lastResolve.missed = "body"
    /\ lastResolve.profile_id = Str("support")
    /\ table[BodyKey("default", "support", "1")] = SeededItem
    /\ lastResolve.profile_version = Str("1")
    /\ lastResolve.result = get_default_profile

\* C3: once a call has found the record of a (tenant_id, profile_id, version),
\* every later call for the same triple returns a field-for-field identical
\* result without reading the profile body from the store, whatever has
\* happened to the stored record in between.
C3_SecondResolveServedFromCache ==
    (lastResolve # NoCall /\ lastResolve.prior # NoCall)
        => /\ lastResolve.result = lastResolve.prior
           /\ ~lastResolve.store_read

\* C3 witness: a second call for a triple returned the first call's profile
\* although the stored record has been replaced by another one
C3_Witness ==
    /\ lastResolve # NoCall
    /\ lastResolve.prior # NoCall
    /\ IsProfile(lastResolve.result)
    /\ lastResolve.result = build_profile_config(dynamodb_item_to_dict(SeededItem))
    /\ table[BodyKey("default", "support", "1")] = EditedItem
    /\ ~lastResolve.store_read

(***************************************************************************)
(* Character-level string operations used by tools.py                      *)
(***************************************************************************)
Whitespace == {" ", "\t", "\n"}

RECURSIVE LStrip(_)
LStrip(chars) ==
    IF chars # <<>> /\ chars[1] \in Whitespace THEN LStrip(Tail(chars)) ELSE chars

RECURSIVE RStripSet(_, _)
RStripSet(chars, drop) ==
    IF chars # <<>> /\ chars[Len(chars)] \in drop
    THEN RStripSet(SubSeq(chars, 1, Len(chars) - 1), drop) ELSE chars

\* str.strip()
Strip(chars) == RStripSet(LStrip(chars), Whitespace)

\* str.startswith(prefix)
StartsWith(chars, prefix) ==
    Len(chars) >= Len(prefix) /\ SubSeq(chars, 1, Len(prefix)) = prefix

\* index of the first character of chars that is in stops, Len(chars)+1 if none
RECURSIVE FirstIn(_, _, _)
FirstIn(chars, stops, i) ==
    IF i > Len(chars) THEN i
    ELSE IF chars[i] \in stops THEN i
    ELSE FirstIn(chars, stops, i + 1)

UpperChar(ch) ==
    CASE ch = "g" -> "G" [] ch = "e" -> "E" [] ch = "t" -> "T"
      [] ch = "p" -> "P" [] ch = "o" -> "O" [] ch = "s" -> "S"
      [] OTHER -> ch
\* str.upper()
Upper(chars) == [i \in DOMAIN chars |-> UpperChar(chars[i])]

RECURSIVE NatChars(_)
NatChars(n) ==
    LET d == CHOOSE ch \in Digits : DigitVal(ch) = n % 10 IN
    IF n < 10 THEN <<d>> ELSE NatChars(n \div 10) \o <<d>>

\* str(v) for the value shapes a decoded record can hold, as characters
str(v) ==
    CASE v.t = "str"  -> IF "c" \in DOMAIN v THEN v.c ELSE <<v.s>>
      [] v.t = "none" -> <<"N", "o", "n", "e">>
      [] v.t = "int"  -> IF v.i < 0 THEN <<"-">> \o NatChars(0 - v.i) ELSE NatChars(v.i)
      [] v.t = "float" -> v.f
      [] v.t = "bool" -> IF v.b THEN <<"T", "r", "u", "e">> ELSE <<"F", "a", "l", "s", "e">>
      [] v.t = "dict" -> <<"{", "}">>
      [] v.t = "list" -> <<"[", "]">>

SchemeHttps == <<"h", "t", "t", "p", "s", ":", "/", "/">>

\* urllib.parse.urlparse(url).netloc for a url that has a scheme followed by
\* "//": the text up to the next "/", "?" or "#"
netloc_of(url) ==
    LET start == FirstIn(url, {":"}, 1) + 3
        rest == SubSeq(url, start, Len(url))
    IN  SubSeq(rest, 1, FirstIn(rest, {"/", "?", "#"}, 1) - 1)

\* urlsplit raises ValueError("Invalid IPv6 URL") on an unbalanced bracket
netloc_invalid(netloc) ==
    LET open == \E i \in DOMAIN netloc : netloc[i] = "["
        close == \E i \in DOMAIN netloc : netloc[i] = "]"
    IN  open # close

(***************************************************************************)
(* tools._dynamodb_item_to_dict                                            *)
(***************************************************************************)
RECURSIVE tools_dynamodb_item_to_dict(_)
\* one element of an "L" list (tools.py lines 154-165)
ToolsDecodeListElement(element) ==
    IF HasTag(element, "M") THEN tools_dynamodb_item_to_dict(element.d["M"])
    ELSE IF HasTag(element, "S") THEN element.d["S"]
    ELSE IF HasTag(element, "N")
         THEN (IF HasDot(element.d["N"].c) THEN PFloat(element.d["N"].c)
               ELSE PInt(ParseInt(element.d["N"].c)))
    ELSE IF HasTag(element, "BOOL") THEN element.d["BOOL"]
    ELSE None_

ToolsDecodeAttribute(value) ==
    IF HasTag(value, "S") THEN value.d["S"]
    ELSE IF HasTag(value, "N") THEN DecodeNumber(value.d["N"])
    ELSE IF HasTag(value, "BOOL") THEN value.d["BOOL"]
    ELSE IF HasTag(value, "NULL") THEN None_
    ELSE IF HasTag(value, "M") THEN tools_dynamodb_item_to_dict(value.d["M"])
    ELSE IF HasTag(value, "L")
         THEN List([i \in DOMAIN value.d["L"].l |-> ToolsDecodeListElement(value.d["L"].l[i])])
    ELSE IF HasTag(value, "SS") THEN List(value.d["SS"].l)
    ELSE value

tools_dynamodb_item_to_dict(item) ==
    Dict([key \in DOMAIN item.d |-> ToolsDecodeAttribute(item.d[key])])

AttrSC(chars) == Dict("S" :> StrC(chars))

(***************************************************************************)
(* tools._validate_http_tool_definition                                    *)
(***************************************************************************)

\* the value a conversion returns when it does not raise
Ok(v) == [t |-> "ok", v |-> v]

RECURSIVE SetToSeq(_)
SetToSeq(S) == IF S = {} THEN <<>> ELSE LET x == CHOOSE x \in S : TRUE IN <<x>> \o SetToSeq(S \ {x})

\* [str(k) for k in v]: the names as strings, TypeError if v is not iterable
list_of_str(v) ==
    CASE v.t = "list" -> Ok([i \in DOMAIN v.l |-> Join(str(v.l[i]))])
      [] v.t = "dict" -> Ok(SetToSeq(DOMAIN v.d))
      [] v.t = "str"  -> Ok(str(v))
      [] OTHER        -> Raise("TypeError")

\* {str(k): str(v) for k, v in v.items()}, AttributeError if v has no items()
dict_of_str(v) ==
    IF IsDict(v) THEN Ok([k \in DOMAIN v.d |-> Join(str(v.d[k]))])
    ELSE Raise("AttributeError")

\* int(v)
to_int(v) ==
    CASE v.t = "int"   -> Ok(v.i)
      [] v.t = "bool"  -> Ok(IF v.b THEN 1 ELSE 0)
      [] v.t = "float" -> Ok(ParseInt(SubSeq(v.f, 1, FirstIn(v.f, {"."}, 1) - 1)))
      [] v.t = "str"   -> IF "c" \in DOMAIN v /\ IsIntLiteral(Strip(v.c))
                          THEN Ok(ParseInt(Strip(v.c))) ELSE Raise("ValueError")
      [] OTHER         -> Raise("TypeError")

\* a variant of max that keeps its first argument, whatever the second is
max_keeps_first(a, b) == a

Max(a, b) == IF a >= b THEN a ELSE b

DefaultTimeoutMs == 8000
DefaultMaxResponseBytes == 8192
MinTimeoutMs == 100
MinResponseBytes == 256

\* a variant of the scheme check that accepts every scheme starting with "http"
https_only_any_http(base_url) == StartsWith(base_url, <<"h", "t", "t", "p">>)

\* base_url.startswith("https://")
https_only(base_url) == StartsWith(base_url, SchemeHttps)

\* HttpToolDefinition | None, or the exception a conversion raises
validate_http_tool_definition(raw) ==
    LET method == Upper(str(Get(raw, "method", StrC(<<"G", "E", "T">>))))
        base_url == Strip(str(Get(raw, "base_url", StrC(<<>>))))
        stripped_template == Strip(str(Get(raw, "path_template", StrC(<<"/">>))))
        template == IF stripped_template = <<>> THEN <<"/">> ELSE stripped_template
        path_template == IF StartsWith(template, <<"/">>) THEN template ELSE <<"/">> \o template
        netloc == netloc_of(base_url)
        allowed_query_keys == list_of_str(Or(Get(raw, "allowed_query_keys", None_), List(<<>>)))
        headers_static == dict_of_str(Or(Get(raw, "headers_static", None_), EmptyDict))
        headers_dynamic_allowlist ==
            list_of_str(Or(Get(raw, "headers_dynamic_allowlist", None_), List(<<>>)))
        timeout_ms == to_int(Or(Get(raw, "timeout_ms", None_), PInt(DefaultTimeoutMs)))
        max_response_bytes ==
            to_int(Or(Get(raw, "max_response_bytes", None_), PInt(DefaultMaxResponseBytes)))
        response_allowlist == list_of_str(Or(Get(raw, "response_allowlist", None_), List(<<>>)))
        tool_id == str(Or(Or(Or(Get(raw, "http_tool_id", None_), Get(raw, "tool_id", None_)),
                             Get(raw, "id", None_)), StrC(<<"h", "t", "t", "p", "_", "t", "o", "o", "l">>)))
        version == str(Or(Get(raw, "version", None_), StrC(<<"1">>)))
        description == str(Or(Get(raw, "description", None_),
                              StrC(<<"C", "a", "l", "l", " ", "c", "o", "n", "f", "i", "g", "u", "r", "e", "d", " ", "e", "n", "d", "p", "o", "i", "n", "t", " ">> \o method \o <<" ">> \o netloc \o path_template)))
    IN
    IF ~https_only(base_url) THEN None_
    ELSE IF netloc_invalid(netloc) THEN Raise("ValueError")
    ELSE IF netloc = <<>> THEN None_
    ELSE IF IsRaise(allowed_query_keys) THEN allowed_query_keys
    ELSE IF IsRaise(headers_static) THEN headers_static
    ELSE IF IsRaise(headers_dynamic_allowlist) THEN headers_dynamic_allowlist
    ELSE IF IsRaise(timeout_ms) THEN timeout_ms
    ELSE IF IsRaise(max_response_bytes) THEN max_response_bytes
    ELSE IF IsRaise(response_allowlist) THEN response_allowlist
    ELSE [t |-> "HttpToolDefinition",
          tool_id |-> tool_id,
          version |-> version,
          method |-> method,
          base_url |-> RStripSet(base_url, {"/"}),
          path_template |-> path_template,
          allowed_query_keys |-> allowed_query_keys.v,
          headers_static |-> headers_static.v,
          headers_dynamic_allowlist |-> headers_dynamic_allowlist.v,
          timeout_ms |-> Max(timeout_ms.v, MinTimeoutMs),
          max_response_bytes |-> Max(max_response_bytes.v, MinResponseBytes),
          response_allowlist |-> response_allowlist.v,
          description |-> description]

(***************************************************************************)
(* tools._parse_http_tool_ref, _fetch_http_tool_definition, resolve_tools  *)
(***************************************************************************)
HTTP_REF_PREFIX == <<"h", "t", "t", "p", ":">>

\* HttpToolRef | None
parse_http_tool_ref(tool_ref) ==
    LET payload == Strip(SubSeq(tool_ref, Len(HTTP_REF_PREFIX) + 1, Len(tool_ref)))
        at == FirstIn(payload, {"@"}, 1)
        has_at == at <= Len(payload)
        tool_id == IF has_at THEN Strip(SubSeq(payload, 1, at - 1)) ELSE payload
        given == Strip(SubSeq(payload, at + 1, Len(payload)))
        version == IF has_at /\ given # <<>> THEN given ELSE <<"1">>
    IN
    IF ~StartsWith(tool_ref, HTTP_REF_PREFIX) THEN None_
    ELSE IF payload = <<>> THEN None_
    ELSE IF tool_id = <<>> THEN None_
    ELSE [t |-> "HttpToolRef", tool_id |-> tool_id, version |-> version]

HttpToolKey(tool_id, version) ==
    [pk |-> "HTTPTOOL", sk |-> <<"I", "D", "#">> \o tool_id \o <<"#", "V", "#">> \o version]

\* dict.setdefault(key, value)
SetDefault(dict, key, value) ==
    IF key \in DOMAIN dict.d THEN dict ELSE Dict((key :> value) @@ dict.d)

\* HttpToolDefinition | None, or the exception raised by the validation
fetch_http_tool_definition(tbl, ref, outcome) ==
    LET response == get_item(tbl, "HTTPTOOL", HttpToolKey(ref.tool_id, ref.version).sk, outcome)
        item == IF "Item" \in DOMAIN response THEN response.Item ELSE None_
        parsed == SetDefault(SetDefault(tools_dynamodb_item_to_dict(item),
                                        "http_tool_id", StrC(ref.tool_id)),
                             "version", StrC(ref.version))
    IN
    IF IsRaise(response) THEN None_
    ELSE IF ~Truthy(item) THEN None_
    ELSE validate_http_tool_definition(parsed)

BuiltinNames == {<<"h", "a", "n", "g", "_", "u", "p">>, <<"w", "a", "i", "t">>, <<"s", "e", "n", "d", "_", "d", "t", "m", "f">>}

\* _make_http_tool: the FunctionTool compiled for a definition
make_http_tool(defn, tool_id) ==
    [kind |-> "http", name |-> <<"h", "t", "t", "p", "_">> \o defn.tool_id,
     defn |-> defn, requested |-> tool_id]

\* a variant of the loop body that answers an unknown id with hang_up
resolve_one_unknown_as_hang_up(tbl, tool_id, outcome) ==
    LET http_ref == parse_http_tool_ref(tool_id)
        http_def == fetch_http_tool_definition(tbl, http_ref, outcome)
        hang_up == <<"h", "a", "n", "g", "_", "u", "p">>
    IN
    IF tool_id \in BuiltinNames
    THEN [t |-> "append", tools |-> <<[kind |-> "builtin", name |-> tool_id, requested |-> tool_id]>>]
    ELSE IF http_ref = None_
    THEN [t |-> "append", tools |-> <<[kind |-> "builtin", name |-> hang_up, requested |-> hang_up]>>]
    ELSE IF IsRaise(http_def) THEN http_def
    ELSE IF http_def = None_ THEN [t |-> "append", tools |-> <<>>]
    ELSE [t |-> "append", tools |-> <<make_http_tool(http_def, tool_id)>>]

\* the loop body of resolve_tools for one tool_id: the tools it appends (none
\* or one), or the exception raised
resolve_one(tbl, tool_id, outcome) ==
    LET http_ref == parse_http_tool_ref(tool_id)
        http_def == fetch_http_tool_definition(tbl, http_ref, outcome)
    IN
    IF tool_id \in BuiltinNames
    THEN [t |-> "append", tools |-> <<[kind |-> "builtin", name |-> tool_id, requested |-> tool_id]>>]
    ELSE IF http_ref = None_ THEN [t |-> "append", tools |-> <<>>]
    ELSE IF IsRaise(http_def) THEN http_def
    ELSE IF http_def = None_ THEN [t |-> "append", tools |-> <<>>]
    ELSE [t |-> "append", tools |-> <<make_http_tool(http_def, tool_id)>>]

RECURSIVE resolve_from(_, _, _, _, _)
resolve_from(tbl, tool_ids, outcomes, i, selected) ==
    IF i > Len(tool_ids) THEN [t |-> "tools", tools |-> selected]
    ELSE LET one == resolve_one(tbl, tool_ids[i], outcomes[i]) IN
         IF IsRaise(one) THEN one
         ELSE resolve_from(tbl, tool_ids, outcomes, i + 1, selected \o one.tools)

\* resolve_tools(tool_ids): the selected list, or the exception that escapes
resolve_tools(tbl, tool_ids, outcomes) == resolve_from(tbl, tool_ids, outcomes, 1, <<>>)

(***************************************************************************)
(* Stored HTTP tool definitions and callers of resolve_tools               *)
(***************************************************************************)
ToolGeo == <<"g", "e", "o">>
ToolWeather == <<"w", "e", "a", "t", "h", "e", "r">>
HttpToolKeys == {HttpToolKey(ToolGeo, <<"1">>), HttpToolKey(ToolWeather, <<"1">>)}

UrlPlain == <<"h", "t", "t", "p", "s", ":", "/", "/", "a", ".", "i", "o">>
UrlPadded == <<" ", "h", "t", "t", "p", "s", ":", "/", "/", "a", ".", "i", "o", "/">>
UrlHttp == <<"h", "t", "t", "p", ":", "/", "/", "a", ".", "i", "o">>
UrlNoHost == <<"h", "t", "t", "p", "s", ":", "/", "/">>
UrlNoHostPath == <<"h", "t", "t", "p", "s", ":", "/", "/", "/", "v", "1">>
UrlPortOnly == <<"h", "t", "t", "p", "s", ":", "/", "/", ":", "4", "4", "3">>
UrlBracket == <<"h", "t", "t", "p", "s", ":", "/", "/", "[", "a">>

\* a well-formed definition, the way a tenant stores it
ToolCore(base_url) ==
    ("entity_type" :> AttrS("http_tool"))
    @@ ("base_url" :> AttrSC(base_url))
    @@ ("method" :> AttrSC(<<"g", "e", "t">>))
    @@ ("path_template" :> AttrSC(<<"/", "v", "1", "/", "{", "i", "d", "}">>))
    @@ ("allowed_query_keys" :> AttrL(<<AttrS("q")>>))
    @@ ("headers_static" :> AttrM("Accept" :> AttrS("application/json")))

ValidToolItem == Dict(ToolCore(UrlPlain) @@ ("timeout_ms" :> AttrN(<<"5", "0", "0", "0">>)))

\* definitions with a base_url of each shape, the other fields well-formed
BaseUrlItems ==
    {Dict(ToolCore(u)) : u \in {UrlPadded, UrlHttp, UrlNoHost, UrlNoHostPath, UrlPortOnly, UrlBracket}}
    \cup {Dict([k \in DOMAIN ToolCore(UrlPlain) \ {"base_url"} |-> ToolCore(UrlPlain)[k]])}

\* definitions with an https base_url and one malformed field
MalformedToolItems ==
    {Dict(ToolCore(UrlPlain) @@ ("timeout_ms" :> AttrSC(<<"a", "b", "c">>))),
     Dict(ToolCore(UrlPlain) @@ ("max_response_bytes" :> AttrSC(<<"8", "k">>))),
     Dict(("headers_static" :> AttrS("Accept: text/plain")) @@ ToolCore(UrlPlain)),
     Dict(("allowed_query_keys" :> AttrN(<<"5">>)) @@ ToolCore(UrlPlain))}

\* definitions with values below the floors, and with a non-https base_url
\* next to a malformed field
OtherToolItems ==
    {Dict(ToolCore(UrlPlain) @@ ("timeout_ms" :> AttrN(<<"5", "0">>))
          @@ ("max_response_bytes" :> AttrN(<<"0">>))),
     Dict(ToolCore(UrlPlain) @@ ("timeout_ms" :> AttrN(<<"-", "5">>))
          @@ ("max_response_bytes" :> AttrN(<<"1", "0">>))),
     Dict(ToolCore(UrlHttp) @@ ("timeout_ms" :> AttrSC(<<"a", "b", "c">>)))}

ToolItems == {ValidToolItem} \cup BaseUrlItems \cup MalformedToolItems \cup OtherToolItems

\* the definitions stored under each key: every shape for the first tool, a
\* well-formed, an insecure and a malformed one for the second
ToolItemsFor(key) ==
    IF key = HttpToolKey(ToolGeo, <<"1">>) THEN ToolItems
    ELSE {ValidToolItem, Dict(ToolCore(UrlHttp)),
          Dict(ToolCore(UrlPlain) @@ ("timeout_ms" :> AttrSC(<<"a", "b", "c">>)))}

IdHangUp == <<"h", "a", "n", "g", "_", "u", "p">>
IdWait == <<"w", "a", "i", "t">>
IdGeo == <<"h", "t", "t", "p", ":", "g", "e", "o">>
IdWeather == <<"h", "t", "t", "p", ":", "w", "e", "a", "t", "h", "e", "r", "@", "1">>
IdUnknown == <<"l", "o", "o", "k", "u", "p">>
IdEmptyRef == <<"h", "t", "t", "p", ":", " ">>

\* tool_ids iterables a caller may pass, in the order they are iterated
ToolIdLists ==
    {<<>>, <<IdHangUp>>, <<IdGeo>>, <<IdHangUp, IdGeo>>, <<IdGeo, IdWait>>,
     <<IdGeo, IdWeather>>, <<IdWeather, IdGeo>>, <<IdUnknown, IdWait>>, <<IdEmptyRef, IdHangUp>>}

(***************************************************************************)
(* Actions on the tool store                                              *)
(***************************************************************************)
\* out-of-band configuration change; the observation of the latest
\* resolve_tools call describes the table as it is, so a change clears it
PutTool(key, item) ==
    /\ table[key] # item
    /\ table' = [table EXCEPT ![key] = item]
    /\ tresolve' = NoCall
    /\ UNCHANGED <<cache, lastResolve, seen, inflight, tcall, compiled, builderVars, limitVars>>

DeleteTool(key) ==
    /\ table[key] # NoItem
    /\ table' = [table EXCEPT ![key] = NoItem]
    /\ tresolve' = NoCall
    /\ UNCHANGED <<cache, lastResolve, seen, inflight, tcall, compiled, builderVars, limitVars>>

\* one call of resolve_tools, with the outcome of the store read of each id
ResolveTools(tool_ids, outcomes) ==
    /\ tresolve' = [tool_ids |-> tool_ids, outcomes |-> outcomes,
                    result |-> resolve_tools(table, tool_ids, outcomes)]
    /\ UNCHANGED <<table, cache, lastResolve, seen, inflight, tcall, compiled, builderVars, limitVars>>

InitToolStore ==
    /\ table = [k \in HttpToolKeys |-> NoItem]
    /\ cache = <<>>
    /\ lastResolve = NoCall
    /\ seen = <<>>
    /\ inflight = <<>>

NextTools ==
    \/ \E key \in HttpToolKeys : \E item \in ToolItemsFor(key) : PutTool(key, item)
    \/ \E key \in HttpToolKeys : DeleteTool(key)
    \/ \E tool_ids \in ToolIdLists : \E outcomes \in [DOMAIN tool_ids -> StoreOutcomes] :
          ResolveTools(tool_ids, outcomes)

\* an empty tool store, no session running
InitSession == InitToolStore /\ InitTools /\ InitLimits

SpecTools == InitSession /\ [][NextTools]_vars

(***************************************************************************)
(* Claims on resolve_tools                                                 *)
(***************************************************************************)
\* the store key an http: reference of the model denotes
RequestKey(tool_id) ==
    IF tool_id = IdGeo THEN HttpToolKey(ToolGeo, <<"1">>) ELSE HttpToolKey(ToolWeather, <<"1">>)

\* the base_url text of a stored record, empty if it has none
StoredBaseUrl(item) ==
    IF item # NoItem /\ "base_url" \in DOMAIN item.d /\ HasTag(item.d["base_url"], "S")
    THEN item.d["base_url"].d["S"].c ELSE <<>>

\* the network location of an https url: the text between "https://" and the
\* next "/", "?" or "#"
Authority(url) ==
    LET rest == SubSeq(url, Len(SchemeHttps) + 1, Len(url))
        stop == CHOOSE i \in 1..(Len(rest) + 1) :
                    /\ i = Len(rest) + 1 \/ rest[i] \in {"/", "?", "#"}
                    /\ \A j \in 1..(i - 1) : rest[j] \notin {"/", "?", "#"}
    IN  SubSeq(rest, 1, stop - 1)

HttpsWithHost(url) == StartsWith(url, SchemeHttps) /\ Authority(url) # <<>>

\* the host of a network location: the text after the last "@", up to the
\* port's ":" (up to the closing "]" for a bracketed address)
HostOf(location) ==
    LET ats == {i \in DOMAIN location : location[i] = "@"}
        at == IF ats = {} THEN 0 ELSE CHOOSE i \in ats : \A j \in ats : j <= i
        hostport == SubSeq(location, at + 1, Len(location))
    IN  IF hostport # <<>> /\ hostport[1] = "["
        THEN SubSeq(hostport, 2, FirstIn(hostport, {"]"}, 1) - 1)
        ELSE SubSeq(hostport, 1, FirstIn(hostport, {":"}, 1) - 1)

HttpsWithNamedHost(url) == StartsWith(url, SchemeHttps) /\ HostOf(Authority(url)) # <<>>

ReturnedTools == IF tresolve # NoCall /\ tresolve.result.t = "tools" THEN tresolve.result.tools ELSE <<>>

\* C4 as stated: a stored HTTP tool record whose base_url does not start with
\* https:// or does not parse to a non-empty host never yields a returned tool.
C4_Original ==
    \A i \in DOMAIN ReturnedTools :
        ReturnedTools[i].kind = "http"
            => HttpsWithNamedHost(StoredBaseUrl(table[RequestKey(ReturnedTools[i].requested)]))

\* C4: a stored HTTP tool record whose base_url, with surrounding
\* whitespace stripped, does not start with https:// or has an empty network
\* location never yields a returned tool, whatever its other fields hold.
C4_NonHttpsNeverCompiled ==
    \A i \in DOMAIN ReturnedTools :
        ReturnedTools[i].kind = "http"
            => HttpsWithHost(Strip(StoredBaseUrl(table[RequestKey(ReturnedTools[i].requested)])))

\* C4 witness: a call asked for the tool whose record has an http:// base_url
\* and for a well-formed one, and returned only the well-formed one
C4_Witness ==
    /\ tresolve # NoCall
    /\ tresolve.tool_ids = <<IdGeo, IdWeather>>
    /\ table[HttpToolKey(ToolGeo, <<"1">>)] = Dict(ToolCore(UrlHttp))
    /\ Len(ReturnedTools) = 1
    /\ ReturnedTools[1].requested = IdWeather

\* C5: for every stored HTTP tool record, malformed ones included,
\* resolve_tools does not raise, and every requested tool that resolves is
\* returned.
C5_MalformedToolOmitted ==
    tresolve # NoCall =>
        /\ tresolve.result.t = "tools"
        /\ \A i \in DOMAIN tresolve.tool_ids :
              LET one == resolve_one(table, tresolve.tool_ids[i], tresolve.outcomes[i]) IN
              ~IsRaise(one) =>
                  \A j \in DOMAIN one.tools :
                      \E k \in DOMAIN ReturnedTools : ReturnedTools[k] = one.tools[j]

\* the whole number a stored record holds under an attribute, None if the
\* attribute is absent
StoredInt(item, name) ==
    IF name \in DOMAIN item.d /\ HasTag(item.d[name], "N") /\ IsIntLiteral(item.d[name].d["N"].c)
    THEN PInt(ParseInt(item.d[name].d["N"].c)) ELSE None_

\* C16: every definition that validation returns, for a stored record of any
\* shape (timeout_ms or max_response_bytes below the floor, zero, negative
\* or absent), has timeout_ms >= 100 and max_response_bytes >= 256.
C16_Floors ==
    \A i \in DOMAIN ReturnedTools :
        ReturnedTools[i].kind = "http" =>
            /\ ReturnedTools[i].defn.timeout_ms >= 100
            /\ ReturnedTools[i].defn.max_response_bytes >= 256

\* a tool is returned whose stored record has a negative timeout_ms and a
\* max_response_bytes below the floor, and its definition carries the floors
C16_Witness ==
    \E i \in DOMAIN ReturnedTools :
        /\ ReturnedTools[i].kind = "http"
        /\ ReturnedTools[i].requested = IdGeo
        /\ StoredInt(table[RequestKey(IdGeo)], "timeout_ms") = PInt(0 - 5)
        /\ StoredInt(table[RequestKey(IdGeo)], "max_response_bytes") = PInt(10)
        /\ ReturnedTools[i].defn.timeout_ms = 100
        /\ ReturnedTools[i].defn.max_response_bytes = 256

(***************************************************************************)
(* tools._render_path, _parse_object_arg and the compiled _http_tool       *)
(***************************************************************************)
Text(kind, detail) == [t |-> "text", kind |-> kind, detail |-> detail]

\* chars split at every occurrence of the separator character
RECURSIVE SplitOn(_, _)
SplitOn(chars, sep) ==
    LET i == FirstIn(chars, {sep}, 1) IN
    IF i > Len(chars) THEN <<chars>>
    ELSE <<SubSeq(chars, 1, i - 1)>> \o SplitOn(SubSeq(chars, i + 1, Len(chars)), sep)

\* chars split at the first occurrence of the separator: <<before, after>>
SplitFirst(chars, sep) ==
    LET i == FirstIn(chars, {sep}, 1) IN
    <<SubSeq(chars, 1, i - 1), SubSeq(chars, i + 1, Len(chars))>>

\* urllib.parse.parse_qsl(text, keep_blank_values=True) as {k: v for k, v in pairs}
\* (a later pair of the same name overrides an earlier one)
RECURSIVE pairs_to_dict(_, _)
pairs_to_dict(fields, acc) ==
    IF fields = <<>> THEN acc
    ELSE LET kv == SplitFirst(Head(fields), "=") IN
         pairs_to_dict(Tail(fields),
                       IF Head(fields) = <<>> THEN acc
                       ELSE (Join(kv[1]) :> StrC(kv[2])) @@ [k \in DOMAIN acc \ {Join(kv[1])} |-> acc[k]])
parse_qsl_dict(text) == Dict(pairs_to_dict(SplitOn(text, "&"), <<>>))

\* _parse_object_arg(raw, arg_name=..., allow_querystring=...): (value, error), or
\* the exception of json.loads that is no JSONDecodeError
parse_object_arg(raw, arg_name, allow_querystring) ==
    LET text == Strip(raw.c)
        decoded == json_loads(Join(text))
    IN
    IF raw = None_ THEN [t |-> "pair", v |-> EmptyDict, err |-> None_]
    ELSE IF IsDict(raw) THEN [t |-> "pair", v |-> raw, err |-> None_]
    ELSE IF ~IsStr(raw) THEN [t |-> "pair", v |-> None_, err |-> Text("must_be_json_object_string", arg_name)]
    ELSE IF text = <<>> THEN [t |-> "pair", v |-> EmptyDict, err |-> None_]
    ELSE IF allow_querystring /\ (\E i \in DOMAIN text : text[i] = "=") /\ ~StartsWith(text, <<"{">>)
    THEN [t |-> "pair", v |-> parse_qsl_dict(text), err |-> None_]
    ELSE IF IsRaise(decoded) /\ decoded.e # "JSONDecodeError" THEN decoded
    ELSE IF IsRaise(decoded) THEN [t |-> "pair", v |-> None_, err |-> Text("invalid_json", arg_name)]
    ELSE IF decoded = None_ THEN [t |-> "pair", v |-> EmptyDict, err |-> None_]
    ELSE IF ~IsDict(decoded) THEN [t |-> "pair", v |-> None_, err |-> Text("must_decode_to_object", arg_name)]
    ELSE [t |-> "pair", v |-> decoded, err |-> None_]

\* re.findall(r"\{([^{}]+)\}", path_template): the placeholder names in order
RECURSIVE find_placeholders(_)
find_placeholders(template) ==
    LET open == FirstIn(template, {"{"}, 1)
        after == SubSeq(template, open + 1, Len(template))
        stop == FirstIn(after, {"{", "}"}, 1)
    IN
    IF open > Len(template) THEN <<>>
    ELSE IF stop <= Len(after) /\ after[stop] = "}" /\ stop > 1
    THEN <<SubSeq(after, 1, stop - 1)>> \o find_placeholders(SubSeq(after, stop + 1, Len(after)))
    ELSE find_placeholders(after)

\* str.replace(old, new)
RECURSIVE Replace(_, _, _)
Replace(chars, old, new) ==
    IF Len(chars) < Len(old) THEN chars
    ELSE IF SubSeq(chars, 1, Len(old)) = old
    THEN new \o Replace(SubSeq(chars, Len(old) + 1, Len(chars)), old, new)
    ELSE <<chars[1]>> \o Replace(Tail(chars), old, new)

Unreserved ==
    Digits \cup {"a", "b", "c", "d", "e", "f", "g", "h", "i", "j", "k", "l", "m", "n", "o", "p",
                 "q", "r", "s", "t", "u", "v", "w", "x", "y", "z", "_", ".", "-", "~"}
PercentCode(ch) ==
    CASE ch = "/" -> <<"%", "2", "F">> [] ch = "?" -> <<"%", "3", "F">>
      [] ch = " " -> <<"%", "2", "0">> [] ch = "#" -> <<"%", "2", "3">>
      [] ch = "{" -> <<"%", "7", "B">> [] ch = "}" -> <<"%", "7", "D">>
      [] ch = "&" -> <<"%", "2", "6">> [] ch = "=" -> <<"%", "3", "D">>
      [] OTHER -> <<"%", "X", "X">>
\* a variant of quote with the library's default safe="/"
RECURSIVE quote_default_safe(_)
quote_default_safe(chars) ==
    IF chars = <<>> THEN <<>>
    ELSE (IF chars[1] \in Unreserved \cup {"/"} THEN <<chars[1]>> ELSE PercentCode(chars[1]))
         \o quote_default_safe(Tail(chars))

\* urllib.parse.quote(text, safe="")
RECURSIVE quote(_)
quote(chars) ==
    IF chars = <<>> THEN <<>>
    ELSE (IF chars[1] \in Unreserved THEN <<chars[1]>> ELSE PercentCode(chars[1])) \o quote(Tail(chars))

\* _render_path: the rendered path, or ValueError with the missing name as key
RECURSIVE render_keys(_, _, _)
render_keys(rendered, keys, params) ==
    IF keys = <<>> THEN Ok(rendered)
    ELSE IF Join(Head(keys)) \notin DOMAIN params.d
    THEN [t |-> "raise", e |-> "ValueError", key |-> Head(keys)]
    ELSE render_keys(Replace(rendered, <<"{">> \o Head(keys) \o <<"}">>,
                             quote(str(params.d[Join(Head(keys))]))),
                     Tail(keys), params)
render_path(path_template, path_params) ==
    render_keys(path_template, find_placeholders(path_template), path_params)

\* urllib.parse.urlencode(query): name=value fields joined by "&"
RECURSIVE urlencode_keys(_, _)
urlencode_keys(query, keys) ==
    IF keys = <<>> THEN <<>>
    ELSE <<Head(keys), "=">> \o quote(str(query.d[Head(keys)]))
         \o (IF Tail(keys) = <<>> THEN <<>> ELSE <<"&">> \o urlencode_keys(query, Tail(keys)))
urlencode(query) == urlencode_keys(query, SetToSeq(DOMAIN query.d))

\* the "current_weather" -> "current" compatibility alias (lines 306-308)
apply_alias(query) ==
    IF "current_weather" \in DOMAIN query.d /\ "current" \notin DOMAIN query.d
    THEN Dict(("current" :> query.d["current_weather"])
              @@ [k \in DOMAIN query.d \ {"current_weather"} |-> query.d[k]])
    ELSE query

InSeq(x, seq) == \E i \in DOMAIN seq : seq[i] = x

\* a variant of the header filter that forwards the caller's headers when
\* the definition lists no dynamic header names
filter_dynamic_headers_forward_all(headers, headers_dynamic_allowlist) ==
    IF headers_dynamic_allowlist # <<>>
    THEN (IF \E k \in DOMAIN headers.d : ~InSeq(k, headers_dynamic_allowlist)
          THEN Raise("disallowed") ELSE headers)
    ELSE headers

\* the filter applied to the caller's headers (lines 315-323): the dynamic
\* headers to send, or the names that are not allowed
filter_dynamic_headers(headers, headers_dynamic_allowlist) ==
    IF headers_dynamic_allowlist # <<>>
    THEN (IF \E k \in DOMAIN headers.d : ~InSeq(k, headers_dynamic_allowlist)
          THEN Raise("disallowed") ELSE headers)
    ELSE EmptyDict

\* outcome of urlopen / resp.read / decode in the worker thread
TransportOutcomes ==
    {[kind |-> "timeout"], [kind |-> "connection_error"], [kind |-> "http_error", status |-> 500]}
    \cup {[kind |-> "response", status |-> 200, payload_text |-> body] :
            body \in {RespObject, RespObjectOther, RespArray, RespHtml, RespTruncated,
                      RespUndecodable, JsonDeep}}
    \cup {[kind |-> "response", status |-> 201, payload_text |-> RespObjectOther]}

\* a variant of the response handling that returns every JSON payload whole
response_text_unfiltered(d, transport) ==
    LET payload_json == json_loads(transport.payload_text) IN
    IF IsRaise(payload_json) /\ payload_json.e # "JSONDecodeError" THEN payload_json
    ELSE IF IsRaise(payload_json)
    THEN Text("http", [status |-> transport.status, raw |-> transport.payload_text])
    ELSE Text("http", [status |-> transport.status, json |-> payload_json])

\* lines 358-368: the text of a response
response_text(d, transport) ==
    LET payload_json == json_loads(transport.payload_text) IN
    IF IsRaise(payload_json) /\ payload_json.e # "JSONDecodeError" THEN payload_json
    ELSE IF IsRaise(payload_json)
    THEN Text("http", [status |-> transport.status, raw |-> transport.payload_text])
    ELSE IF d.response_allowlist # <<>> /\ IsDict(payload_json)
    THEN Text("http", [status |-> transport.status,
                       json |-> Dict([k \in {d.response_allowlist[i] : i \in DOMAIN d.response_allowlist}
                                        |-> Get(payload_json, k, None_)])])
    ELSE Text("http", [status |-> transport.status, json |-> payload_json])

\* lines 352-356: the worker's result, an exception turned into a text
do_request(d, transport) ==
    IF transport.kind # "response" THEN Text("request_failed", transport.kind)
    ELSE response_text(d, transport)

\* [k for k in query if k not in defn.allowed_query_keys], empty when the
\* definition lists no allowed keys (lines 310-313)
\* (first a variant that never reports a key)
disallowed_keys_unchecked(query, allowed_query_keys) == {}
disallowed_keys(query, allowed_query_keys) ==
    IF allowed_query_keys # <<>>
    THEN {k \in DOMAIN query.d : ~InSeq(k, allowed_query_keys)}
    ELSE {}

\* _http_tool(path_params_json, query_json, body_json, headers_json) of the
\* tool compiled for defn:
\*   result   the returned text, or the exception raised into the caller
\*   request  the urllib request sent, None if no network request was made
http_tool(defn, path_params_json, query_json, body_json, headers_json, transport) ==
    LET pp == parse_object_arg(path_params_json, "path_params_json", FALSE)
        qq == parse_object_arg(query_json, "query_json", TRUE)
        hh == parse_object_arg(headers_json, "headers_json", FALSE)
        bb == parse_object_arg(body_json, "body_json", FALSE)
        path == render_path(defn.path_template, pp.v)
        query == apply_alias(qq.v)
        disallowed == disallowed_keys(query, defn.allowed_query_keys)
        dynamic_headers == filter_dynamic_headers(hh.v, defn.headers_dynamic_allowlist)
        query_string == urlencode(query)
        url == defn.base_url \o path.v
               \o (IF query_string # <<>> THEN <<"?">> \o query_string ELSE <<>>)
        static == [k \in DOMAIN defn.headers_static |->
                      [value |-> defn.headers_static[k], from |-> "headers_static"]]
        dynamic == [k \in DOMAIN dynamic_headers.d |->
                       [value |-> Join(str(dynamic_headers.d[k])), from |-> "headers_json"]]
        updated == dynamic @@ static
        has_body == bb.v # None_
        request_headers ==
            IF has_body /\ "Content-Type" \notin DOMAIN updated
            THEN ("Content-Type" :> [value |-> "application/json", from |-> "default"]) @@ updated
            ELSE updated
        request == [t |-> "request", url |-> url, method |-> defn.method, query |-> query,
                    headers |-> request_headers,
                    data |-> IF has_body THEN Str(json_dumps(bb.v)) ELSE None_]
    IN
    IF IsRaise(pp) THEN [result |-> pp, request |-> None_]
    ELSE IF pp.err # None_ THEN [result |-> pp.err, request |-> None_]
    ELSE IF IsRaise(qq) THEN [result |-> qq, request |-> None_]
    ELSE IF qq.err # None_ THEN [result |-> qq.err, request |-> None_]
    ELSE IF IsRaise(hh) THEN [result |-> hh, request |-> None_]
    ELSE IF hh.err # None_ THEN [result |-> hh.err, request |-> None_]
    ELSE IF IsRaise(bb) THEN [result |-> bb, request |-> None_]
    ELSE IF bb.err # None_ THEN [result |-> bb.err, request |-> None_]
    ELSE IF IsRaise(path) THEN [result |-> Text("missing_path_param", path.key), request |-> None_]
    ELSE IF disallowed # {} THEN [result |-> Text("disallowed_query_keys", disallowed), request |-> None_]
    ELSE IF IsRaise(dynamic_headers)
    THEN [result |-> Text("disallowed_header_keys",
                          {k \in DOMAIN hh.v.d : ~InSeq(k, defn.headers_dynamic_allowlist)}),
          request |-> None_]
    ELSE [result |-> do_request(defn, transport), request |-> request]

(***************************************************************************)
(* A session that compiles one stored definition and calls the tool        *)
(***************************************************************************)
ArgEmptyObject == <<"{", "}">>
ArgEmptyText == <<>>
ArgArray == <<"[", "1", "]">>
ArgBroken == <<"{", "\"", "m", "a", "x", "_", "t", "o", "o", "l", "_", "s", "t", "e", "p", "s", "\"", ":", " ">>
ArgPathId == <<"{", "\"", "i", "d", "\"", ":", " ", "\"", "a", "/", "b", "\"", "}">>
ArgPathIdKind == <<"{", "\"", "i", "d", "\"", ":", " ", "\"", "a", "/", "b", "\"", ",", " ", "\"", "k", "i", "n", "d", "\"", ":", " ", "\"", "x", "?", "y", "\"", "}">>
ArgQueryQ == <<" ", "{", "\"", "q", "\"", ":", " ", "\"", "1", "\"", "}">>
ArgQueryQX == <<"{", "\"", "q", "\"", ":", " ", "\"", "1", "\"", ",", " ", "\"", "x", "\"", ":", " ", "\"", "2", "\"", "}">>
ArgQueryString == <<"q", "=", "1", "&", "x", "=", "2">>
ArgQueryAlias == <<"{", "\"", "c", "u", "r", "r", "e", "n", "t", "_", "w", "e", "a", "t", "h", "e", "r", "\"", ":", " ", "\"", "1", "\"", "}">>
ArgBodyNote == <<"{", "\"", "n", "o", "t", "e", "\"", ":", " ", "\"", "h", "i", "\"", "}">>
ArgHeaderTrace == <<"{", "\"", "X", "-", "T", "r", "a", "c", "e", "\"", ":", " ", "\"", "t", "1", "\"", "}">>
ArgHeaderAuth == <<"{", "\"", "A", "u", "t", "h", "o", "r", "i", "z", "a", "t", "i", "o", "n", "\"", ":", " ", "\"", "k", "1", "\"", "}">>
ArgHeaderBoth == <<"{", "\"", "X", "-", "T", "r", "a", "c", "e", "\"", ":", " ", "\"", "t", "1", "\"", ",", " ", "\"", "A", "u", "t", "h", "o", "r", "i", "z", "a", "t", "i", "o", "n", "\"", ":", " ", "\"", "k", "1", "\"", "}">>

PathParamArgs == {StrC(ArgEmptyObject), StrC(ArgPathId), StrC(ArgPathIdKind), StrC(ArgArray)}
QueryArgs == {StrC(ArgEmptyObject), StrC(ArgQueryQ), StrC(ArgQueryQX), StrC(ArgQueryString),
              StrC(ArgQueryAlias), StrC(ArgBroken), StrC(ArgDeep)}
BodyArgs == {StrC(ArgEmptyText), StrC(ArgEmptyObject), StrC(ArgBodyNote)}
HeaderArgs == {StrC(ArgEmptyObject), StrC(ArgHeaderTrace), StrC(ArgHeaderAuth), StrC(ArgHeaderBoth)}

\* stored definitions the session compiles: a keyed search endpoint, a
\* weather endpoint with a header and a response allow-list, an open one, and
\* one with two path placeholders and a Content-Type of its own
SearchItem == ValidToolItem
WeatherItem ==
    Dict(("path_template" :> AttrSC(<<"v", "1">>))
         @@ ("allowed_query_keys" :> AttrL(<<AttrS("current")>>))
         @@ ("headers_static" :> AttrM("X-Trace" :> AttrS("fixed")))
         @@ ("headers_dynamic_allowlist" :> AttrL(<<AttrS("X-Trace")>>))
         @@ ("response_allowlist" :> AttrL(<<AttrS("temp")>>))
         @@ ToolCore(UrlPlain))
OpenItem ==
    Dict([k \in {"entity_type", "base_url"} |-> ToolCore(UrlPadded)[k]])
PagedItem ==
    Dict(("path_template" :> AttrSC(<<"/", "v", "1", "/", "{", "i", "d", "}", "/", "{", "k", "i", "n", "d", "}">>))
         @@ ("headers_static" :> AttrM("Content-Type" :> AttrS("text/plain")))
         @@ ToolCore(UrlPlain))
CompiledItems == {SearchItem, WeatherItem, OpenItem, PagedItem}

\* the tenant stores a definition and a session resolves it into its tool
CompileTool(item) ==
    LET key == HttpToolKey(ToolGeo, <<"1">>) IN
    \E r \in {resolve_tools([table EXCEPT ![key] = item], <<IdGeo>>, <<"ok">>)} :
        /\ tcall = NoCall
        /\ r.t = "tools"
        /\ r.tools # <<>>
        /\ table' = [table EXCEPT ![key] = item]
        /\ compiled' = r.tools[1].defn
        /\ UNCHANGED <<cache, lastResolve, seen, inflight, tresolve, tcall, builderVars, limitVars>>

\* the agent calls the compiled tool; the transport behaves as given
InvokeTool(path_params_json, query_json, body_json, headers_json, transport) ==
    /\ compiled # None_
    /\ tcall = NoCall
    /\ \E r \in {http_tool(compiled, path_params_json, query_json, body_json, headers_json,
                           transport)} :
          tcall' = [t |-> "call", path_params_json |-> path_params_json,
                    query_json |-> query_json, body_json |-> body_json,
                    headers_json |-> headers_json, transport |-> transport,
                    result |-> r.result, request |-> r.request]
    /\ UNCHANGED <<table, cache, lastResolve, seen, inflight, tresolve, compiled, builderVars, limitVars>>

\* the agent's loop takes the outcome of the call
ReturnToAgent ==
    /\ tcall # NoCall
    /\ tcall' = NoCall
    /\ UNCHANGED <<table, cache, lastResolve, seen, inflight, tresolve, compiled, builderVars, limitVars>>

NextHttpTool ==
    \/ \E item \in CompiledItems : CompileTool(item)
    \/ \E p \in PathParamArgs, q \in QueryArgs, b \in BodyArgs, h \in HeaderArgs :
          \E transport \in TransportOutcomes : InvokeTool(p, q, b, h, transport)
    \/ ReturnToAgent

SpecHttpTool == InitSession /\ [][NextHttpTool]_vars

(***************************************************************************)
(* Claims on the compiled HTTP tool                                        *)
(***************************************************************************)
Called == tcall # NoCall
\* the four arguments of the observed call, as _parse_object_arg reads them
SuppliedPathParams == parse_object_arg(tcall.path_params_json, "path_params_json", FALSE)
SuppliedQuery == parse_object_arg(tcall.query_json, "query_json", TRUE)
SuppliedHeaders == parse_object_arg(tcall.headers_json, "headers_json", FALSE)
SuppliedBody == parse_object_arg(tcall.body_json, "body_json", FALSE)
Parsed(arg) == ~IsRaise(arg) /\ arg.err = None_
ArgsParse ==
    Parsed(SuppliedPathParams) /\ Parsed(SuppliedQuery) /\ Parsed(SuppliedHeaders)
    /\ Parsed(SuppliedBody)
PathRenders == ~IsRaise(render_path(compiled.path_template, SuppliedPathParams.v))
Outside(query) == {k \in DOMAIN query.d : ~InSeq(k, compiled.allowed_query_keys)}
IsDisallowedQueryError(result, keys) ==
    result.t = "text" /\ result.kind = "disallowed_query_keys" /\ result.detail = keys

\* C6 as stated: with a non-empty allowed_query_keys, every call whose
\* supplied query holds a key outside the set returns the disallowed-query-keys
\* error and sends no request.
C6_Original ==
    (Called /\ compiled.allowed_query_keys # <<>> /\ Parsed(SuppliedQuery)
       /\ Outside(SuppliedQuery.v) # {})
    => (tcall.request = None_
        /\ tcall.result.t = "text" /\ tcall.result.kind = "disallowed_query_keys")

\* C6: with a non-empty allowed_query_keys, a call whose query, after the
\* current_weather -> current renaming, holds a key outside the set sends no
\* request, and returns the disallowed-query-keys error naming those keys
\* once the four arguments parse and the path renders; every query key of a
\* request that is sent is in allowed_query_keys.
C6_DisallowedQueryKeysRejected ==
    (Called /\ compiled.allowed_query_keys # <<>>)
    => /\ (Parsed(SuppliedQuery) /\ Outside(apply_alias(SuppliedQuery.v)) # {})
          => /\ tcall.request = None_
             /\ (ArgsParse /\ PathRenders)
                => IsDisallowedQueryError(tcall.result, Outside(apply_alias(SuppliedQuery.v)))
       /\ tcall.request # None_ => Outside(tcall.request.query) = {}

\* a call with parsed arguments and a rendered path whose query holds a key
\* outside the allowed set, answered with the error
C6_Witness ==
    /\ Called
    /\ compiled.allowed_query_keys # <<>>
    /\ ArgsParse
    /\ PathRenders
    /\ Outside(apply_alias(SuppliedQuery.v)) # {}
    /\ tcall.request = None_
    /\ tcall.result.kind = "disallowed_query_keys"

HeadersFromCaller(request) ==
    {k \in DOMAIN request.headers : request.headers[k].from = "headers_json"}

\* C7: on every request sent, each header taken from headers_json has a name
\* in headers_dynamic_allowlist; with an empty headers_dynamic_allowlist the
\* request carries no header from headers_json.
C7_DynamicHeadersAllowlisted ==
    (Called /\ tcall.request # None_)
    => /\ \A k \in HeadersFromCaller(tcall.request) : InSeq(k, compiled.headers_dynamic_allowlist)
       /\ compiled.headers_dynamic_allowlist = <<>> => HeadersFromCaller(tcall.request) = {}

\* a request sent for a definition without dynamic header names, although
\* the caller supplied headers
C7_Witness ==
    /\ Called
    /\ tcall.request # None_
    /\ compiled.headers_dynamic_allowlist = <<>>
    /\ Parsed(SuppliedHeaders)
    /\ DOMAIN SuppliedHeaders.v.d # {}
    /\ HeadersFromCaller(tcall.request) = {}

\* C8: every invocation ends by returning a text and raises nothing into the
\* caller; a transport failure is returned as the "Request failed" text.
C8_AlwaysReturnsText ==
    Called
    => /\ tcall.result.t = "text"
       /\ (tcall.request # None_ /\ tcall.transport.kind # "response")
          => tcall.result.kind = "request_failed"

(***************************************************************************)
(* agent.my_agent, step 8: the profile limits of a running session         *)
(***************************************************************************)
\* horizon of the clock, its step, and the sizes of tool-execution events
MaxTime == 180
TickSeconds == 30
MaxBatch == 2
MaxTotalCalls == 4

SecondsPerMinute == 60
WindowSeconds == 60

Limits(max_minutes, max_tool_calls, max_tool_calls_per_minute) ==
    [t |-> "ProfileLimits", max_minutes |-> max_minutes, max_tool_calls |-> max_tool_calls,
     max_tool_calls_per_minute |-> max_tool_calls_per_minute]

\* the limits of the profiles a session runs with
LimitProfiles ==
    {Limits(None_, None_, None_),
     Limits(PInt(1), None_, None_),
     Limits(PInt(2), PInt(2), None_),
     Limits(PInt(0), None_, PInt(1)),
     Limits(PInt(0 - 1), PInt(0), None_),
     Limits(PInt(1), PInt(3), PInt(2)),
     Limits(None_, PInt(3), PInt(2)),
     Limits(None_, PInt(0 - 1), None_)}

\* the enforcer's state: limit_state, the shutdown calls made, the reasons
\* given to _trigger_shutdown and the reasons it logged
Enforcer(state, calls, given, warned) ==
    [limit_state |-> state, shutdown_calls |-> calls, reasons |-> given, logged |-> warned]

\* a variant of _trigger_shutdown without the guard on limit_state["triggered"]
trigger_shutdown_unguarded(enforcer, reason) ==
    Enforcer([enforcer.limit_state EXCEPT !.triggered = TRUE],
             enforcer.shutdown_calls + 1,
             Append(enforcer.reasons, reason),
             Append(enforcer.logged, reason))

\* _trigger_shutdown(reason)
trigger_shutdown(enforcer, reason) ==
    IF enforcer.limit_state.triggered
    THEN Enforcer(enforcer.limit_state, enforcer.shutdown_calls, Append(enforcer.reasons, reason),
                  enforcer.logged)
    ELSE Enforcer([enforcer.limit_state EXCEPT !.triggered = TRUE],
                  enforcer.shutdown_calls + 1,
                  Append(enforcer.reasons, reason),
                  Append(enforcer.logged, reason))

\* a variant of the duration check that arms the timer only above one minute
has_duration_limit_above_one(max_minutes) == max_minutes # None_ /\ max_minutes.i > 1

\* max_minutes is not None and max_minutes > 0
has_duration_limit(max_minutes) == max_minutes # None_ /\ max_minutes.i > 0

\* float(max_minutes) * 60.0
timeout_seconds(max_minutes) == max_minutes.i * SecondsPerMinute

\* a variant of the eviction loop that evicts nothing
trim_window_keep_all(timestamps, one_minute_ago) == timestamps

\* while timestamps and timestamps[0] < one_minute_ago: timestamps.popleft()
RECURSIVE trim_window(_, _)
trim_window(timestamps, one_minute_ago) ==
    IF timestamps # <<>> /\ Head(timestamps) < one_minute_ago
    THEN trim_window(Tail(timestamps), one_minute_ago)
    ELSE timestamps

\* a variant of the total check that fires when the total reaches the limit
total_exceeded_at_limit(lim, total) ==
    lim.max_tool_calls # None_ /\ total >= lim.max_tool_calls.i

\* max_tool_calls is not None and limit_state["tool_calls_total"] > max_tool_calls
total_exceeded(lim, total) ==
    lim.max_tool_calls # None_ /\ total > lim.max_tool_calls.i

\* a variant of the rate check that allows one call more in the window
rate_exceeded_one_late(lim, timestamps) ==
    lim.max_tool_calls_per_minute # None_
    /\ Len(timestamps) > lim.max_tool_calls_per_minute.i + 1

\* max_tool_calls_per_minute is not None and len(timestamps) > max_tool_calls_per_minute
rate_exceeded(lim, timestamps) ==
    lim.max_tool_calls_per_minute # None_
    /\ Len(timestamps) > lim.max_tool_calls_per_minute.i

\* a variant of the handler that evaluates the per-minute check first and
\* goes on to the total check after it
tools_executed_rate_first(enforcer, lim, call_count, time) ==
    LET state == enforcer.limit_state
        total == state.tool_calls_total + call_count
        timestamps == trim_window(state.tool_call_timestamps \o [i \in 1..call_count |-> time],
                                  time - WindowSeconds)
        counted == Enforcer([state EXCEPT !.tool_calls_total = total,
                                          !.tool_call_timestamps = timestamps],
                            enforcer.shutdown_calls, enforcer.reasons, enforcer.logged)
        rated == IF rate_exceeded(lim, timestamps)
                 THEN trigger_shutdown(counted, "max_tool_calls_per_minute") ELSE counted
    IN
    IF call_count <= 0 THEN enforcer
    ELSE IF total_exceeded(lim, total) THEN trigger_shutdown(rated, "max_tool_calls")
    ELSE rated

\* _on_function_tools_executed(ev), with call_count = len(ev.function_calls)
on_function_tools_executed(enforcer, lim, call_count, time) ==
    LET state == enforcer.limit_state
        total == state.tool_calls_total + call_count
        timestamps == trim_window(state.tool_call_timestamps \o [i \in 1..call_count |-> time],
                                  time - WindowSeconds)
        counted == Enforcer([state EXCEPT !.tool_calls_total = total,
                                          !.tool_call_timestamps = timestamps],
                            enforcer.shutdown_calls, enforcer.reasons, enforcer.logged)
    IN
    IF call_count <= 0 THEN enforcer
    ELSE IF total_exceeded(lim, total)
    THEN trigger_shutdown(counted, "max_tool_calls")
    ELSE IF rate_exceeded(lim, timestamps)
    THEN trigger_shutdown(counted, "max_tool_calls_per_minute")
    ELSE counted

\* session.start(...) with the limits of the resolved profile
StartSession(lim) ==
    /\ pc = "idle"
    /\ pc' = "started"
    /\ limits' = lim
    /\ UNCHANGED <<profileVars, toolVars, builderVars, limit_state, now, timeout_task, deadline,
                   shutdown_calls, reasons, logged, executed, recorded>>

\* ctx.connect() returns; limit_state, the duration timer, the event handler
\* and the shutdown callback are set up without yielding (lines 159-230)
ConnectAndEnforce ==
    /\ pc = "started"
    /\ has_duration_limit(limits.max_minutes)
       => now + timeout_seconds(limits.max_minutes) <= MaxTime
    /\ pc' = "enforcing"
    /\ limit_state' = [triggered |-> FALSE, tool_calls_total |-> 0, tool_call_timestamps |-> <<>>]
    /\ IF has_duration_limit(limits.max_minutes)
       THEN timeout_task' = "sleeping" /\ deadline' = now + timeout_seconds(limits.max_minutes)
       ELSE timeout_task' = "none" /\ deadline' = deadline
    /\ UNCHANGED <<profileVars, toolVars, builderVars, limits, now, shutdown_calls, reasons, logged, executed,
                   recorded>>

\* the clock advances
Tick ==
    /\ pc \in {"started", "enforcing"}
    /\ \/ now + TickSeconds <= MaxTime
       \/ pc = "enforcing" /\ timeout_task = "sleeping" /\ now < deadline
    /\ now' = now + TickSeconds
    /\ UNCHANGED <<profileVars, toolVars, builderVars, pc, limits, limit_state, timeout_task, deadline,
                   shutdown_calls, reasons, logged, executed, recorded>>

\* the session executes tools before the handler is registered
ToolsExecutedUnobserved(call_count) ==
    /\ pc = "started"
    /\ executed + call_count <= MaxTotalCalls
    /\ executed' = executed + call_count
    /\ UNCHANGED <<profileVars, toolVars, builderVars, pc, limits, limit_state, now, timeout_task, deadline,
                   shutdown_calls, reasons, logged, recorded>>

\* the session emits function_tools_executed to the registered handler
FunctionToolsExecuted(call_count) ==
    /\ pc = "enforcing"
    /\ executed + call_count <= MaxTotalCalls
    /\ executed' = executed + call_count
    /\ \E e \in {on_function_tools_executed(Enforcer(limit_state, shutdown_calls, reasons, logged),
                                            limits, call_count, now)} :
          /\ limit_state' = e.limit_state
          /\ shutdown_calls' = e.shutdown_calls
          /\ reasons' = e.reasons
          /\ logged' = e.logged
    /\ recorded' = recorded \o [i \in 1..call_count |-> now]
    /\ UNCHANGED <<profileVars, toolVars, builderVars, pc, limits, now, timeout_task, deadline>>

\* _timeout_shutdown wakes from its sleep; the task runs whatever my_agent
\* and the shutdown callback have come to
TimeoutShutdown ==
    /\ pc \in {"enforcing", "cleanup", "closed", "cleanup_raised"}
    /\ timeout_task = "sleeping"
    /\ now >= deadline
    /\ timeout_task' = "done"
    /\ \E e \in {trigger_shutdown(Enforcer(limit_state, shutdown_calls, reasons, logged), "max_minutes")} :
          /\ limit_state' = e.limit_state
          /\ shutdown_calls' = e.shutdown_calls
          /\ reasons' = e.reasons
          /\ logged' = e.logged
    /\ UNCHANGED <<profileVars, toolVars, builderVars, pc, limits, now, deadline, executed, recorded>>

\* a variant of the cleanup test-and-cancel that cancels nothing
cancel_if_pending_skipped(task) == task

\* if timeout_task is not None and not timeout_task.done(): timeout_task.cancel()
cancel_if_pending(task) == IF task = "sleeping" THEN "cancelling" ELSE task

\* try: await timeout_task / except asyncio.CancelledError: pass
await_swallowing_cancel(task) ==
    LET awaited == IF task = "cancelled" THEN Raise("CancelledError") ELSE None_ IN
    IF IsRaise(awaited) /\ awaited.e = "CancelledError" THEN None_ ELSE awaited

\* the job shuts down: _cleanup_limit_tasks runs up to its await, or to its
\* end when there is no pending timer
Teardown ==
    /\ pc = "enforcing"
    /\ \E task \in {cancel_if_pending(timeout_task)} :
          /\ timeout_task' = task
          /\ pc' = IF task = "cancelling" THEN "cleanup" ELSE "closed"
    /\ UNCHANGED <<profileVars, toolVars, builderVars, limits, limit_state, now, deadline, shutdown_calls,
                   reasons, logged, executed, recorded>>

\* the event loop resumes the timer task after cancel(): CancelledError is
\* thrown into _timeout_shutdown at its await, also when the sleep is over
TimerCancelled ==
    /\ timeout_task = "cancelling"
    /\ timeout_task' = "cancelled"
    /\ UNCHANGED <<profileVars, toolVars, builderVars, pc, limits, limit_state, now, deadline,
                   shutdown_calls, reasons, logged, executed, recorded>>

\* _cleanup_limit_tasks resumes from `await timeout_task`
CleanupReturns ==
    /\ pc = "cleanup"
    /\ timeout_task \in {"cancelled", "done"}
    /\ pc' = IF IsRaise(await_swallowing_cancel(timeout_task)) THEN "cleanup_raised" ELSE "closed"
    /\ UNCHANGED <<profileVars, toolVars, builderVars, limits, limit_state, now, timeout_task, deadline,
                   shutdown_calls, reasons, logged, executed, recorded>>

NextLimits ==
    \/ \E lim \in LimitProfiles : StartSession(lim)
    \/ ConnectAndEnforce
    \/ Tick
    \/ \E call_count \in 0..MaxBatch : ToolsExecutedUnobserved(call_count)
    \/ \E call_count \in 0..MaxBatch : FunctionToolsExecuted(call_count)
    \/ TimeoutShutdown
    \/ Teardown
    \/ TimerCancelled
    \/ CleanupReturns

SpecLimits == InitSession /\ [][NextLimits]_vars

\* the clock keeps running and the event loop runs a task whose sleep is over
FairSpecLimits ==
    InitSession /\ [][NextLimits]_vars /\ WF_vars(Tick) /\ WF_vars(TimeoutShutdown)
    /\ WF_vars(TimerCancelled) /\ WF_vars(CleanupReturns)

(***************************************************************************)
(* Claims on the limit enforcer                                            *)
(***************************************************************************)
Enforcing == pc \in {"enforcing", "cleanup", "closed", "cleanup_raised"}
Triggered == Enforcing /\ limit_state.triggered

\* C9: the enforcer is one-shot: triggered never returns from true to false,
\* session.shutdown is called at most once, and a call of _trigger_shutdown
\* after the first changes neither.
C9_OneShot ==
    /\ [](shutdown_calls <= 1)
    /\ [](Enforcing => (limit_state.triggered <=> reasons # <<>>))
    /\ [][Triggered => limit_state'.triggered]_vars
    /\ [][(reasons # <<>> /\ Len(reasons') > Len(reasons))
           => (limit_state'.triggered = limit_state.triggered
               /\ shutdown_calls' = shutdown_calls)]_vars

\* a second call of _trigger_shutdown has been made, and one shutdown requested
C9_Witness ==
    /\ Enforcing
    /\ Len(reasons) >= 2
    /\ limit_state.triggered
    /\ shutdown_calls = 1

PositiveMinutes == limits.max_minutes # None_ /\ limits.max_minutes.i > 0
TimerReason == \E i \in DOMAIN reasons : reasons[i] = "max_minutes"
ToolReason == \E i \in DOMAIN reasons : reasons[i] # "max_minutes"

\* C10: with a positive max_minutes the enforcer, unless torn down first,
\* eventually is TRIGGERED, the timer fires no earlier than max_minutes*60
\* seconds after it was armed, and shutdown is requested exactly once; with
\* max_minutes absent, zero or negative there is no timer and, without a tool
\* limit being hit, the passing of time never triggers.
C10_DurationLimit ==
    /\ ((pc = "enforcing" /\ PositiveMinutes) ~> (Triggered \/ pc = "closed"))
    /\ []((pc = "enforcing" /\ PositiveMinutes) => timeout_task \in {"sleeping", "done"})
    /\ [](TimerReason => (now >= limits.max_minutes.i * 60 /\ now >= deadline))
    /\ [](Triggered => shutdown_calls = 1)
    /\ []((Enforcing /\ ~PositiveMinutes)
            => (timeout_task = "none" /\ ~TimerReason /\ (limit_state.triggered => ToolReason)))
    /\ [][now' # now => UNCHANGED <<limit_state, shutdown_calls>>]_vars

\* the timer of a one-minute limit has fired with no tool executed
C10_Witness ==
    /\ Enforcing
    /\ limits.max_minutes = PInt(1)
    /\ executed = 0
    /\ timeout_task = "done"
    /\ reasons = <<"max_minutes">>
    /\ limit_state.triggered
    /\ shutdown_calls = 1
    /\ now >= 60

(***************************************************************************)
(* Claims on the tool-usage limits                                         *)
(***************************************************************************)
HasReason(reason) == \E i \in DOMAIN reasons : reasons[i] = reason
Queue == limit_state.tool_call_timestamps
\* the handler has counted at least one call
Counted == Enforcing /\ limit_state.tool_calls_total >= 1

\* C11: once the handler has counted a batch, a total strictly above a set
\* max_tool_calls means TRIGGERED; the total rule fires only with the total
\* strictly above the limit, and never with max_tool_calls absent.
C11_TotalLimit ==
    Enforcing
    => /\ (Counted /\ limits.max_tool_calls # None_
             /\ limit_state.tool_calls_total > limits.max_tool_calls.i)
          => limit_state.triggered
       /\ HasReason("max_tool_calls")
          => (limits.max_tool_calls # None_
              /\ limit_state.tool_calls_total > limits.max_tool_calls.i)
       /\ (limits.max_tool_calls = None_ /\ limits.max_tool_calls_per_minute = None_
             /\ ~HasReason("max_minutes"))
          => ~limit_state.triggered

\* the total has passed a limit of 3 by one batch and the enforcer triggered
C11_Witness ==
    /\ Enforcing
    /\ limits.max_tool_calls = PInt(3)
    /\ limit_state.tool_calls_total = 4
    /\ reasons # <<>>
    /\ reasons[Len(reasons)] = "max_tool_calls"
    /\ limit_state.triggered

\* a total equal to the limit, with no trigger
C11_AtLimit ==
    /\ Enforcing
    /\ limits.max_tool_calls = PInt(3)
    /\ limit_state.tool_calls_total = 3
    /\ ~limit_state.triggered

\* C12: once the handler has counted a batch, more calls in the trailing 60
\* seconds than a set max_tool_calls_per_minute means TRIGGERED with exactly
\* one shutdown request; the rate rule fires only with the window above the
\* limit, and no later event causes a second request.
C12_RateLimit ==
    /\ [](shutdown_calls <= 1)
    /\ []((Counted /\ limits.max_tool_calls_per_minute # None_
             /\ Len(Queue) > limits.max_tool_calls_per_minute.i)
          => (limit_state.triggered /\ shutdown_calls = 1))
    /\ [][(Len(reasons') > Len(reasons)
            /\ reasons'[Len(reasons')] = "max_tool_calls_per_minute")
           => (limits.max_tool_calls_per_minute # None_
               /\ Len(limit_state'.tool_call_timestamps) > limits.max_tool_calls_per_minute.i
               /\ Cardinality({i \in DOMAIN recorded' : recorded'[i] >= now - 60})
                    > limits.max_tool_calls_per_minute.i)]_vars

\* three calls inside one minute under a limit of two: the rate rule fired,
\* a later event tried again, and one shutdown was requested
C12_Witness ==
    /\ Enforcing
    /\ limits.max_tool_calls_per_minute = PInt(2)
    /\ Len(reasons) >= 2
    /\ reasons[1] = "max_tool_calls_per_minute"
    /\ limit_state.triggered
    /\ shutdown_calls = 1

IsNonDecreasing(seq) == \A i, j \in DOMAIN seq : i <= j => seq[i] <= seq[j]

\* C20: right after the handler has counted a batch at time now, the queue
\* is non-decreasing, each entry t has now-60 <= t <= now, and the queue has
\* as many entries as calls were counted at a time within the last 60 seconds.
C20_TimestampQueue ==
    [][(pc = "enforcing" /\ Len(recorded') > Len(recorded))
        => LET queue == limit_state'.tool_call_timestamps IN
           /\ IsNonDecreasing(queue)
           /\ \A i \in DOMAIN queue : now - 60 <= queue[i] /\ queue[i] <= now
           /\ Len(queue) = Cardinality({i \in DOMAIN recorded' : recorded'[i] >= now - 60})
           /\ Len(queue) >= Len(recorded') - Len(recorded)]_vars

\* a batch of two was counted now, after an older call had left the window
C20_Witness ==
    /\ Enforcing
    /\ Len(recorded) = 3
    /\ recorded[1] < now - 60
    /\ Queue = <<now, now>>

(***************************************************************************)
(* Claims on the selection made by resolve_tools                           *)
(***************************************************************************)
\* the returned tool at position k answers the requested id at position i
Answers(k, i) ==
    LET tool == ReturnedTools[k]
        tool_id == tresolve.tool_ids[i]
        http_ref == parse_http_tool_ref(tool_id)
        item == table[HttpToolKey(http_ref.tool_id, http_ref.version)]
    IN  /\ tool.requested = tool_id
        /\ tool.kind = "builtin" => (tool_id \in BuiltinNames /\ tool.name = tool_id)
        /\ tool.kind = "http"
           => /\ tool_id \notin BuiltinNames
              /\ http_ref # None_
              /\ tresolve.outcomes[i] = "ok"
              /\ item # NoItem
              /\ HttpsWithHost(Strip(StoredBaseUrl(item)))

\* C13: every returned tool answers a requested id, in the order of the ids
\* and at most one tool per id: a requested built-in, or a requested http:
\* reference whose record was read and accepted; a call raises only if it
\* asked for a parsable http: reference, never for an unknown id.
C13_PassOnly ==
    tresolve # NoCall
    => /\ tresolve.result.t = "raise"
          => \E i \in DOMAIN tresolve.tool_ids :
                 /\ tresolve.tool_ids[i] \notin BuiltinNames
                 /\ parse_http_tool_ref(tresolve.tool_ids[i]) # None_
       /\ Len(ReturnedTools) <= Len(tresolve.tool_ids)
       /\ \E f \in [DOMAIN ReturnedTools -> DOMAIN tresolve.tool_ids] :
             /\ \A k, l \in DOMAIN ReturnedTools : k < l => f[k] < f[l]
             /\ \A k \in DOMAIN ReturnedTools : Answers(k, f[k])

\* a call for an unknown id and wait returned wait alone
C13_Witness ==
    /\ tresolve # NoCall
    /\ tresolve.tool_ids = <<IdUnknown, IdWait>>
    /\ Len(ReturnedTools) = 1
    /\ ReturnedTools[1].kind = "builtin"
    /\ ReturnedTools[1].name = IdWait

(***************************************************************************)
(* Model presets (session_builder.py)                                      *)
(***************************************************************************)
\* config.PresetRef(id, version)
PresetRef(id, version) == [t |-> "PresetRef", id |-> id, version |-> version]

\* a variant of _fetch_preset that, for a reference without a version, first
\* reads a latest-version pointer of the preset and fetches the version it names
fetch_preset_latest_when_unset(tbl, preset_type, preset_ref, outcome) ==
    LET preset_id == preset_ref.id
        pointer == [pk |-> "PRESET#" \o preset_type, sk |-> "LATEST#" \o preset_id]
        latest == get_item(tbl, pointer.pk, pointer.sk, outcome)
        version == IF Truthy(preset_ref.version) THEN preset_ref.version
                   ELSE IF IsRaise(latest) \/ "Item" \notin DOMAIN latest THEN Str("2")
                   ELSE Get(Get(latest.Item, "latest_version", EmptyDict), "S", Str("2"))
        key == [pk |-> "PRESET#" \o preset_type,
                sk |-> "ID#" \o preset_id \o "#V#" \o version.s]
        response == get_item(tbl, key.pk, key.sk, outcome)
        reads == IF Truthy(preset_ref.version) THEN <<key>> ELSE <<pointer, key>>
    IN
    IF IsRaise(response) THEN [reads |-> reads, data |-> None_]
    ELSE IF "Item" \notin DOMAIN response THEN [reads |-> reads, data |-> None_]
    ELSE [reads |-> reads, data |-> dynamodb_item_to_dict(response.Item)]

\* _fetch_preset: the get_item calls it makes, in order, and what it returns
fetch_preset(tbl, preset_type, preset_ref, outcome) ==
    LET preset_id == preset_ref.id
        version == Or(preset_ref.version, Str("1"))
        key == [pk |-> "PRESET#" \o preset_type,
                sk |-> "ID#" \o preset_id \o "#V#" \o version.s]
        response == get_item(tbl, key.pk, key.sk, outcome)
    IN
    IF IsRaise(response) THEN [reads |-> <<key>>, data |-> None_]
    ELSE IF "Item" \notin DOMAIN response THEN [reads |-> <<key>>, data |-> None_]
    ELSE [reads |-> <<key>>, data |-> dynamodb_item_to_dict(response.Item)]

(***************************************************************************)
(* Environment of the preset fetch                                         *)
(***************************************************************************)
PresetTypes == {"LLM", "STT", "TTS", "REALTIME"}
PresetIds == {"gpt-4.1-mini"}
PresetVersions == {"1", "2"}

PresetKey(preset_type, preset_id, version) ==
    [pk |-> "PRESET#" \o preset_type, sk |-> "ID#" \o preset_id \o "#V#" \o version]
PresetKeys == {PresetKey(ty, id, v) : ty \in PresetTypes, id \in PresetIds, v \in PresetVersions}

\* a preset record as migrations/002_seed_defaults.py writes it
PresetItem(preset_id, version) ==
    Dict(("entity_type" :> AttrS("preset")) @@ ("preset_id" :> AttrS(preset_id))
         @@ ("version" :> AttrS(version)) @@ ("provider" :> AttrS("openai"))
         @@ ("model" :> AttrS(preset_id)))

PresetItemFor(key) ==
    CHOOSE item \in {PresetItem(id, v) : id \in PresetIds, v \in PresetVersions} :
        \E ty \in PresetTypes :
            key = PresetKey(ty, item.d["preset_id"].d["S"].s, item.d["version"].d["S"].s)

\* the references a profile can carry: version is a str or None
PresetRefs == {PresetRef(id, v) : id \in PresetIds,
                                  v \in {None_, Str("")} \cup {Str(x) : x \in PresetVersions}}

(***************************************************************************)
(* Actions of the preset fetch                                             *)
(***************************************************************************)
\* a preset record is seeded
PutPreset(key) ==
    /\ table[key] = NoItem
    /\ table' = [table EXCEPT ![key] = PresetItemFor(key)]
    /\ UNCHANGED <<cache, lastResolve, seen, inflight, toolVars, builderVars, limitVars>>

\* out-of-band configuration change: a preset record is deleted
DeletePreset(key) ==
    /\ table[key] # NoItem
    /\ table' = [table EXCEPT ![key] = NoItem]
    /\ UNCHANGED <<cache, lastResolve, seen, inflight, toolVars, builderVars, limitVars>>

\* one call of _fetch_preset
FetchPreset(preset_type, preset_ref, outcome) ==
    \E r \in {fetch_preset(table, preset_type, preset_ref, outcome)} :
    /\ pfetch' = [t |-> "fetch_preset", preset_type |-> preset_type,
                  preset_ref |-> preset_ref, outcome |-> outcome,
                  reads |-> r.reads, data |-> r.data]
    /\ UNCHANGED <<profileVars, toolVars, limitVars, built, ctor, decode_call>>

InitPresetStore ==
    /\ table = [k \in PresetKeys |-> NoItem]
    /\ cache = <<>>
    /\ lastResolve = NoCall
    /\ seen = <<>>
    /\ inflight = <<>>

InitPresets == InitPresetStore /\ InitTools /\ InitLimits

NextPresets ==
    \/ \E key \in PresetKeys : PutPreset(key)
    \/ \E key \in PresetKeys : DeletePreset(key)
    \/ \E preset_type \in PresetTypes, preset_ref \in PresetRefs, outcome \in StoreOutcomes :
          FetchPreset(preset_type, preset_ref, outcome)

SpecPresets == InitPresets /\ [][NextPresets]_vars

(***************************************************************************)
(* Claims on the preset fetch                                              *)
(***************************************************************************)
Fetched == pfetch.t = "fetch_preset"

\* the version the lookup is to be pinned to: the one given, "1" if absent or empty
PinnedVersion(preset_ref) ==
    IF preset_ref.version = None_ \/ preset_ref.version = Str("") THEN "1"
    ELSE preset_ref.version.s

Callers == {"session-a", "session-b"}

\* the locals of a call in progress; at is the await the call is at or before
Locals(at, tenant_id, profile_id, profile_version, data) ==
    [at |-> at, tenant_id |-> tenant_id, profile_id |-> profile_id,
     profile_version |-> profile_version, data |-> data]

Put(f, k, v) == [x \in DOMAIN f \cup {k} |-> IF x = k THEN v ELSE f[x]]

At(c, at) == c \in DOMAIN inflight /\ inflight[c].at = at

\* a session calls resolve_profile
BeginResolve(c, tenant_id, profile_id, profile_version) ==
    /\ c \notin DOMAIN inflight
    /\ inflight' = Put(inflight, c,
                       Locals("default_ptr", tenant_id, profile_id, profile_version, None_))
    /\ UNCHANGED <<table, cache, lastResolve, seen, toolVars, builderVars, limitVars>>

\* Step 1: determine profile_id
AwaitDefaultProfileId(c, outcome) ==
    /\ At(c, "default_ptr")
    /\ LET l == inflight[c]
           pid == IF l.profile_id = None_
                  THEN get_default_profile_id(table, l.tenant_id, outcome)
                  ELSE l.profile_id
       IN inflight' = Put(inflight, c,
                          [l EXCEPT !.profile_id = pid,
                                    !.at = IF pid = None_ THEN "returned" ELSE "latest_ptr"])
    /\ UNCHANGED <<table, cache, lastResolve, seen, toolVars, builderVars, limitVars>>

\* Step 2: resolve profile version
AwaitLatestVersion(c, outcome) ==
    /\ At(c, "latest_ptr")
    /\ LET l == inflight[c]
           ver == IF l.profile_version = None_
                  THEN get_latest_profile_version(table, l.tenant_id, l.profile_id.s, outcome)
                  ELSE l.profile_version
       IN inflight' = Put(inflight, c,
                          [l EXCEPT !.profile_version = ver,
                                    !.at = IF ver = None_ THEN "returned" ELSE "body"])
    /\ UNCHANGED <<table, cache, lastResolve, seen, toolVars, builderVars, limitVars>>

\* Step 3: fetch the profile, through the cache
AwaitFetchProfile(c, outcome) ==
    /\ At(c, "body")
    /\ \E r \in {fetch_profile(table, cache, inflight[c].tenant_id, inflight[c].profile_id.s,
                               inflight[c].profile_version.s, outcome)} :
          /\ cache' = r.cache
          /\ inflight' = Put(inflight, c,
                             [inflight[c] EXCEPT !.data = r.data, !.at = "returned"])
    /\ UNCHANGED <<table, lastResolve, seen, toolVars, builderVars, limitVars>>

\* the caller is done with the profile it was returned
EndResolve(c) ==
    /\ At(c, "returned")
    /\ inflight' = [x \in DOMAIN inflight \ {c} |-> inflight[x]]
    /\ UNCHANGED <<table, cache, lastResolve, seen, toolVars, builderVars, limitVars>>

\* records of the concurrent runs: both pointers as seeded, two profile bodies
ConcurrentItemsFor(key) ==
    IF key \in DefaultPtrKeys
    THEN {item \in DefaultPtrItems : "profile_id" \in DOMAIN item.d}
    ELSE IF key \in LatestPtrKeys
    THEN {item \in LatestPtrItems : item.d["latest_version"] = AttrS("1")}
    ELSE {SeededItem, EditedItem}

NextConcurrent ==
    \/ \E key \in TableKeys : \E item \in ConcurrentItemsFor(key) : PutItem(key, item)
    \/ \E c \in Callers, tenant_id \in Tenants, profile_id \in ProfileIdArgs,
          profile_version \in VersionArgs :
          BeginResolve(c, tenant_id, profile_id, profile_version)
    \/ \E c \in Callers, outcome \in StoreOutcomes : AwaitDefaultProfileId(c, outcome)
    \/ \E c \in Callers, outcome \in StoreOutcomes : AwaitLatestVersion(c, outcome)
    \/ \E c \in Callers, outcome \in StoreOutcomes : AwaitFetchProfile(c, outcome)
    \/ \E c \in Callers : EndResolve(c)

SpecConcurrent == Init /\ [][NextConcurrent]_vars

(***************************************************************************)
(* Claims on the profile cache under concurrent calls                      *)
(***************************************************************************)
\* the call c has just returned from _fetch_profile
Fetches(c) == At(c, "body") /\ c \in DOMAIN inflight' /\ inflight'[c].at = "returned"

\* the stored profile body of the triple the call c is resolving
StoredBody(c) ==
    LET key == BodyKey(inflight[c].tenant_id, inflight[c].profile_id.s,
                       inflight[c].profile_version.s)
    IN IF key \in DOMAIN table THEN table[key] ELSE NoItem

CacheKeyOf(c) ==
    cache_key_of(inflight[c].tenant_id, inflight[c].profile_id.s,
                 inflight[c].profile_version.s)

\* C15: in every step of any interleaving of concurrent resolve_profile calls
\* every cache entry stays in the cache with its value unchanged; an entry is
\* inserted only by a call fetching that key, with the record the store holds
\* for the call's (tenant, profile_id, version); and the data a call gets is
\* None, the record stored for its triple, or the entry cached for it.
C15_CacheWriteOnce ==
    [][/\ \A k \in DOMAIN cache : k \in DOMAIN cache' /\ cache'[k] = cache[k]
       /\ \A k \in DOMAIN cache' \ DOMAIN cache :
             \E c \in Callers :
                /\ Fetches(c)
                /\ k = CacheKeyOf(c)
                /\ StoredBody(c) # NoItem
                /\ cache'[k] = dynamodb_item_to_dict(StoredBody(c))
       /\ \A c \in Callers :
             Fetches(c) =>
                \/ inflight'[c].data = None_
                \/ /\ CacheKeyOf(c) \in DOMAIN cache
                   /\ inflight'[c].data = cache[CacheKeyOf(c)]
                \/ /\ CacheKeyOf(c) \notin DOMAIN cache
                   /\ StoredBody(c) # NoItem
                   /\ inflight'[c].data = dynamodb_item_to_dict(StoredBody(c))
      ]_vars

\* two sessions have resolved the same triple and were both given the cached
\* record, while the store now holds a different record for the triple
C15_Witness ==
    /\ At("session-a", "returned")
    /\ At("session-b", "returned")
    /\ inflight["session-a"].profile_id = Str("support")
    /\ inflight["session-b"].profile_id = Str("support")
    /\ inflight["session-a"].profile_version = Str("1")
    /\ inflight["session-b"].profile_version = Str("1")
    /\ cache_key_of("default", "support", "1") \in DOMAIN cache
    /\ inflight["session-a"].data = cache[cache_key_of("default", "support", "1")]
    /\ inflight["session-b"].data = cache[cache_key_of("default", "support", "1")]
    /\ table[BodyKey("default", "support", "1")] # NoItem
    /\ dynamodb_item_to_dict(table[BodyKey("default", "support", "1")])
          # cache[cache_key_of("default", "support", "1")]

(***************************************************************************)
(* Claims on the path of the request                                       *)
(***************************************************************************)
\* the {name} placeholders of a template: a "{", a non-empty name without
\* braces, a "}"
PlaceholderNames(template) ==
    {SubSeq(template, i + 1, j - 1) : <<i, j>> \in
        {<<i, j>> \in (DOMAIN template) \X (DOMAIN template) :
            /\ i + 1 < j
            /\ template[i] = "{"
            /\ template[j] = "}"
            /\ \A k \in (i + 1)..(j - 1) : template[k] \notin {"{", "}"}}}

MissingPathParams ==
    {name \in PlaceholderNames(compiled.path_template) :
        Join(name) \notin DOMAIN SuppliedPathParams.v.d}

\* the path of the request sent: its url after the base url, up to the query
RequestPath ==
    LET rest == SubSeq(tcall.request.url, Len(compiled.base_url) + 1, Len(tcall.request.url))
    IN  SubSeq(rest, 1, FirstIn(rest, {"?"}, 1) - 1)

Count(chars, ch) == Cardinality({i \in DOMAIN chars : chars[i] = ch})

\* percent-decoding of a path
RECURSIVE Unquote(_)
Unquote(chars) ==
    IF chars = <<>> THEN <<>>
    ELSE IF chars[1] = "%" /\ Len(chars) >= 3
    THEN LET code == SubSeq(chars, 1, 3)
             ch == IF \E c \in {"/", "?", " ", "#", "{", "}", "&", "="} : PercentCode(c) = code
                   THEN CHOOSE c \in {"/", "?", " ", "#", "{", "}", "&", "="} :
                            PercentCode(c) = code
                   ELSE "%"
         IN  <<ch>> \o Unquote(SubSeq(chars, 4, Len(chars)))
    ELSE <<chars[1]>> \o Unquote(Tail(chars))

\* the template with every placeholder replaced by the supplied value as it is
RECURSIVE Substituted(_, _)
Substituted(template, names) ==
    IF names = {} THEN template
    ELSE LET name == CHOOSE n \in names : TRUE IN
         Substituted(Replace(template, <<"{">> \o name \o <<"}">>,
                             str(SuppliedPathParams.v.d[Join(name)])),
                     names \ {name})

\* C17: for a call whose path params parse: when a placeholder of the
\* template has no supplied param, no request is sent, and the call returns
\* the missing-path-param text naming such a placeholder once the other
\* arguments parse too; when every placeholder is supplied, the path of a
\* request that is sent has no brace left, has exactly the "/" of the
\* template (none from a value), and percent-decodes to the template with the
\* supplied values in place of the placeholders.
C17_PathRendered ==
    (Called /\ Parsed(SuppliedPathParams)) =>
        IF MissingPathParams # {}
        THEN /\ tcall.request = None_
             /\ ArgsParse => /\ tcall.result.t = "text"
                             /\ tcall.result.kind = "missing_path_param"
                             /\ tcall.result.detail \in MissingPathParams
        ELSE tcall.request # None_ =>
                /\ Count(RequestPath, "{") = 0
                /\ Count(RequestPath, "}") = 0
                /\ Count(RequestPath, "/") = Count(compiled.path_template, "/")
                /\ Unquote(RequestPath)
                     = Substituted(compiled.path_template,
                                   PlaceholderNames(compiled.path_template))

\* a request is sent for the template /v1/{id}/{kind} with the values a/b
\* and x?y, and its path is /v1/a%2Fb/x%3Fy
C17_Witness ==
    /\ Called
    /\ compiled.path_template = <<"/", "v", "1", "/", "{", "i", "d", "}", "/", "{", "k", "i", "n", "d", "}">>
    /\ tcall.path_params_json = StrC(ArgPathIdKind)
    /\ tcall.request # None_
    /\ RequestPath = <<"/", "v", "1", "/", "a", "%", "2", "F", "b", "/", "x", "%", "3", "F", "y">>

(***************************************************************************)
(* Claims on the body of the request                                       *)
(***************************************************************************)
DefaultedHeaders(request) ==
    {k \in DOMAIN request.headers : request.headers[k].from = "default"}

\* C18: a request carries a body only if one was provided: with body_json
\* empty the request has no data and no header is added by default; with a
\* body object provided the data is the JSON text of the object, and
\* Content-Type is the definition's own if it has one, application/json if not.
C18_BodyOnlyIfProvided ==
    (Called /\ tcall.request # None_) =>
        IF Strip(tcall.body_json.c) = <<>>
        THEN /\ tcall.request.data = None_
             /\ DefaultedHeaders(tcall.request) = {}
        ELSE /\ tcall.request.data # None_
             /\ json_loads(tcall.request.data.s) = SuppliedBody.v
             /\ "Content-Type" \in DOMAIN tcall.request.headers
             /\ tcall.request.headers["Content-Type"].value =
                   IF "Content-Type" \in DOMAIN compiled.headers_static
                   THEN compiled.headers_static["Content-Type"]
                   ELSE "application/json"

(***************************************************************************)
(* Claims on the response allow-list                                       *)
(***************************************************************************)
AllowedResponseKeys == {compiled.response_allowlist[i] : i \in DOMAIN compiled.response_allowlist}

\* the response body, as read, decodes as a JSON object
DecodesAsObject(transport) ==
    /\ transport.kind = "response"
    /\ ~IsRaise(json_loads(transport.payload_text))
    /\ IsDict(json_loads(transport.payload_text))

\* two responses with the same status whose objects agree on every
\* allow-listed top-level key (present in both with one value, or absent in both)
AgreeOnAllowed(one, other) ==
    /\ one.status = other.status
    /\ \A k \in AllowedResponseKeys :
          LET a == json_loads(one.payload_text)
              b == json_loads(other.payload_text)
          IN  /\ (k \in DOMAIN a.d) = (k \in DOMAIN b.d)
              /\ k \in DOMAIN a.d => a.d[k] = b.d[k]

\* what the observed call returns when the endpoint answers with other instead
ResultFor(other) ==
    http_tool(compiled, tcall.path_params_json, tcall.query_json, tcall.body_json,
              tcall.headers_json, other).result

\* C19: for a tool with a non-empty response_allowlist and a response whose
\* body decodes as a JSON object, the result is the status with a JSON object
\* whose keys are within the allow-list, and the call returns the same result
\* for every other object response of the same status that agrees with it on
\* every allow-listed top-level key.
C19_ResponseAllowlisted ==
    (Called /\ tcall.request # None_ /\ compiled.response_allowlist # <<>>
       /\ DecodesAsObject(tcall.transport))
    => /\ tcall.result.t = "text"
       /\ tcall.result.kind = "http"
       /\ "json" \in DOMAIN tcall.result.detail
       /\ DOMAIN tcall.result.detail.json.d \subseteq AllowedResponseKeys
       /\ \A other \in TransportOutcomes :
             (DecodesAsObject(other) /\ AgreeOnAllowed(tcall.transport, other))
             => ResultFor(other) = tcall.result

\* the endpoint answered {"temp": 21, "secret": "k1"} to a tool that allows
\* temp only, the result holds temp alone, and an answer with the same temp,
\* another secret and one more key gives the same result
C19_Witness ==
    /\ Called
    /\ tcall.request # None_
    /\ compiled.response_allowlist = <<"temp">>
    /\ tcall.transport = [kind |-> "response", status |-> 200, payload_text |-> RespObject]
    /\ tcall.result.detail.json = Dict("temp" :> PInt(21))
    /\ \E other \in TransportOutcomes :
          /\ DecodesAsObject(other)
          /\ other # tcall.transport
          /\ AgreeOnAllowed(tcall.transport, other)
          /\ json_loads(other.payload_text) # json_loads(tcall.transport.payload_text)

(***************************************************************************)
(* Claims on the order of the two tool checks                              *)
(***************************************************************************)
\* the handler counts a batch in this step
CountsBatch == Enforcing /\ limit_state'.tool_calls_total > limit_state.tool_calls_total

\* after the step the total is above max_tool_calls
TotalAbove ==
    limits.max_tool_calls # None_ /\ limit_state'.tool_calls_total > limits.max_tool_calls.i

\* after the step the trailing window is above max_tool_calls_per_minute
RateAbove ==
    limits.max_tool_calls_per_minute # None_
    /\ Len(limit_state'.tool_call_timestamps) > limits.max_tool_calls_per_minute.i

\* C21: a batch whose total is above max_tool_calls makes one call of
\* _trigger_shutdown, with the max_tool_calls reason, whether or not the
\* window is above the per-minute limit too (the per-minute check is
\* skipped); if the enforcer was not triggered before, that reason is the one
\* logged; and at most one reason is logged in a session.
C21_TotalBeforeRate ==
    /\ [](Len(logged) <= 1)
    /\ [][(CountsBatch /\ TotalAbove)
           => /\ reasons' = Append(reasons, "max_tool_calls")
              /\ ~limit_state.triggered => logged' = <<"max_tool_calls">>]_vars
    /\ [][(CountsBatch /\ ~TotalAbove /\ RateAbove)
           => reasons' = Append(reasons, "max_tool_calls_per_minute")]_vars

\* one batch took the total above 3 and the window above 2 at once, and the
\* one reason logged is the max_tool_calls one
C21_Witness ==
    /\ Enforcing
    /\ limits = Limits(None_, PInt(3), PInt(2))
    /\ limit_state.tool_calls_total = 4
    /\ Len(limit_state.tool_call_timestamps) = 4
    /\ reasons = <<"max_tool_calls">>
    /\ logged = <<"max_tool_calls">>

(***************************************************************************)
(* Claims on the running total                                             *)
(***************************************************************************)
\* C22: once limit_state exists, tool_calls_total equals the number of
\* function calls of all tool-execution events the session has emitted since
\* session.start: those emitted before the handler was registered and those
\* emitted after the enforcer triggered included.
C22_TotalCoversSession ==
    Enforcing => limit_state.tool_calls_total = executed

(***************************************************************************)
(* Claims on the teardown of the duration timer                            *)
(***************************************************************************)
CleanupCompleted == pc = "closed"

\* C23: once _cleanup_limit_tasks has completed the timer is not pending, and
\* no later step changes the limit state, requests a shutdown or adds a
\* reason; from the moment the cleanup has asked for the cancellation the
\* timer gives no reason; the cleanup ends without raising; a timer that has
\* finished stays finished through the teardown.
C23_TimerStoppedByTeardown ==
    /\ [](CleanupCompleted => timeout_task \in {"none", "done", "cancelled"})
    /\ [][CleanupCompleted => (UNCHANGED <<limit_state, shutdown_calls, reasons, logged>>)]_vars
    /\ [][(timeout_task \in {"cancelling", "cancelled"})
           => (timeout_task' \in {"cancelling", "cancelled"} /\ reasons' = reasons)]_vars
    /\ [](pc # "cleanup_raised")
    /\ [][(timeout_task = "done") => (timeout_task' = "done")]_vars

\* the cleanup has completed for a timer whose sleep was over but which had
\* not run yet: the timer is cancelled and the enforcer never triggered
C23_Witness ==
    /\ CleanupCompleted
    /\ timeout_task = "cancelled"
    /\ now >= deadline
    /\ ~limit_state.triggered
    /\ shutdown_calls = 0


(***************************************************************************)
(* session_builder: model resolution from preset references                *)
(***************************************************************************)
ProviderOpenAI   == <<"o", "p", "e", "n", "a", "i">>
ProviderDeepgram == <<"d", "e", "e", "p", "g", "r", "a", "m">>
ProviderCartesia == <<"c", "a", "r", "t", "e", "s", "i", "a">>
ProviderAws      == <<"a", "w", "s">>
NovaSonic == <<"a", "m", "a", "z", "o", "n", ".", "n", "o", "v", "a", "-", "2", "-",
               "s", "o", "n", "i", "c", "-", "v", "1", ":", "0">>
DefaultLLM == ProviderOpenAI \o <<"/", "g", "p", "t", "-", "5", ".", "1">>
DefaultSTT == ProviderDeepgram \o <<"/", "n", "o", "v", "a", "-", "3">>
DefaultTTS == ProviderCartesia \o <<"/", "s", "o", "n", "i", "c", "-", "3">>
VoiceMarin == <<"m", "a", "r", "i", "n">>

\* a constructor call: the factory and the keyword arguments it is given;
\* retried is TRUE when the call goes through _construct_with_supported_kwargs
Handle(factory, kwargs, retried) ==
    [t |-> "handle", factory |-> factory, kwargs |-> kwargs, retried |-> retried]

\* _normalize_provider_model_id
normalize_provider_model_id(model_id, provider) ==
    LET provider_prefix == provider \o <<"-">>
        slash_prefix == provider \o <<"/">>
    IN
    IF StartsWith(model_id, provider_prefix)
    THEN SubSeq(model_id, Len(provider_prefix) + 1, Len(model_id))
    ELSE IF StartsWith(model_id, slash_prefix)
    THEN SubSeq(model_id, Len(slash_prefix) + 1, Len(model_id))
    ELSE model_id

\* float(v) on a decoded number
to_float(v) ==
    CASE v.t = "float" -> Ok(v)
      [] v.t = "int"   -> Ok(PFloat(str(v) \o <<".", "0">>))
      [] v.t = "bool"  -> Ok(PFloat(IF v.b THEN <<"1", ".", "0">> ELSE <<"0", ".", "0">>))
      [] v.t = "str"   -> Raise("ValueError")
      [] OTHER         -> Raise("TypeError")

\* the keyword a parameter of the preset contributes: nothing when it is absent
Kwarg(params, key, converted) ==
    IF key \in DOMAIN params.d THEN key :> converted ELSE <<>>

\* the first conversion of a sequence of conversions that raises, if any
RECURSIVE FirstRaise(_)
FirstRaise(results) ==
    IF results = <<>> THEN None_
    ELSE IF IsRaise(Head(results)) THEN Head(results)
    ELSE FirstRaise(Tail(results))

\* the conversion of a parameter that is present
Converted(params, key, type) ==
    IF key \notin DOMAIN params.d THEN Ok(None_)
    ELSE IF type = "float" THEN to_float(params.d[key])
    ELSE to_int(params.d[key])

\* the reference as _fetch_preset formats it into the sort key
KeyRef(preset_ref) == PresetRef(Join(preset_ref.id), preset_ref.version)

\* str(v).lower() on the letters that occur in provider names
LowerChar(ch) ==
    CASE ch = "A" -> "a" [] ch = "W" -> "w" [] ch = "S" -> "s" [] OTHER -> ch
Lower(chars) == [i \in DOMAIN chars |-> LowerChar(chars[i])]

\* _resolve_llm_model
resolve_llm_model(tbl, preset_ref, outcome) ==
    IF preset_ref = None_ THEN Handle("inference.LLM", "model" :> DefaultLLM, FALSE)
    ELSE
    LET preset_data == fetch_preset(tbl, "LLM", KeyRef(preset_ref), outcome).data IN
    IF preset_data = None_
    THEN LET model_string == ProviderOpenAI \o <<"/">> \o preset_ref.id IN
         Handle("inference.LLM", "model" :> model_string, FALSE)
    ELSE
    LET provider == Get(preset_data, "provider", StrC(ProviderOpenAI))
        model == Get(preset_data, "model", StrC(preset_ref.id))
        params == Get(preset_data, "params", EmptyDict)
        model_id == normalize_provider_model_id(str(model), str(provider))
        model_string == str(provider) \o <<"/">> \o model_id
        temperature == Converted(params, "temperature", "float")
        max_tokens == Converted(params, "max_tokens", "int")
        top_p == Converted(params, "top_p", "float")
        failed == FirstRaise(<<temperature, max_tokens, top_p>>)
        llm_kwargs == ("model" :> model_string)
                      @@ Kwarg(params, "temperature", temperature.v)
                      @@ Kwarg(params, "max_tokens", PInt(max_tokens.v))
                      @@ Kwarg(params, "top_p", top_p.v)
                      @@ Kwarg(params, "tool_calling_mode",
                               Get(params, "tool_calling_mode", None_))
    IN
    IF failed # None_ THEN failed
    ELSE Handle("inference.LLM", llm_kwargs, TRUE)

\* _resolve_stt_model
resolve_stt_model(tbl, preset_ref, language, outcome) ==
    IF preset_ref = None_
    THEN Handle("inference.STT", ("model" :> DefaultSTT) @@ ("language" :> Str("multi")), FALSE)
    ELSE
    LET preset_data == fetch_preset(tbl, "STT", KeyRef(preset_ref), outcome).data IN
    IF preset_data = None_
    THEN LET preset_id == normalize_provider_model_id(preset_ref.id, ProviderDeepgram)
             model_string == ProviderDeepgram \o <<"/">> \o preset_id
         IN Handle("inference.STT", ("model" :> model_string) @@ ("language" :> language), FALSE)
    ELSE
    LET provider == Get(preset_data, "provider", StrC(ProviderDeepgram))
        model == Get(preset_data, "model", StrC(preset_ref.id))
        params == Get(preset_data, "params", EmptyDict)
        model_id == normalize_provider_model_id(str(model), str(provider))
        model_string == str(provider) \o <<"/">> \o model_id
        stt_language == Or(Get(params, "language", None_), language)
        stt_kwargs == ("model" :> model_string) @@ ("language" :> stt_language)
                      @@ Kwarg(params, "punctuation",
                               PBool(Truthy(Get(params, "punctuation", None_))))
                      @@ Kwarg(params, "diarization",
                               PBool(Truthy(Get(params, "diarization", None_))))
    IN Handle("inference.STT", stt_kwargs, TRUE)

\* _resolve_tts_model
resolve_tts_model(tbl, preset_ref, outcome) ==
    IF preset_ref = None_
    THEN Handle("inference.TTS", ("model" :> DefaultTTS) @@ ("voice" :> Str("9626c31c-bec5-4cca-baa8-f8ba9e84c8bc")),
                FALSE)
    ELSE
    LET preset_data == fetch_preset(tbl, "TTS", KeyRef(preset_ref), outcome).data IN
    IF preset_data = None_
    THEN LET preset_id == normalize_provider_model_id(preset_ref.id, ProviderCartesia)
             model_string == ProviderCartesia \o <<"/">> \o preset_id
         IN Handle("inference.TTS", "model" :> model_string, FALSE)
    ELSE
    LET provider == Get(preset_data, "provider", StrC(ProviderCartesia))
        model == Get(preset_data, "model", StrC(preset_ref.id))
        voice_id == Get(preset_data, "voice_id", None_)
        model_id == normalize_provider_model_id(str(model), str(provider))
        model_string == str(provider) \o <<"/">> \o model_id
    IN
    IF Truthy(voice_id)
    THEN Handle("inference.TTS", ("model" :> model_string) @@ ("voice" :> voice_id), TRUE)
    ELSE Handle("inference.TTS", "model" :> model_string, TRUE)

\* `from livekit.plugins import aws` followed by the default realtime model
default_realtime_model(plugins) ==
    IF "aws" \notin plugins THEN Raise("ImportError")
    ELSE Handle("aws.realtime.RealtimeModel", "model" :> NovaSonic, FALSE)

\* _resolve_realtime_model; plugins is the set of livekit plugins installed
resolve_realtime_model(tbl, preset_ref, outcome, plugins) ==
    IF preset_ref = None_ THEN default_realtime_model(plugins)
    ELSE
    LET preset_data == fetch_preset(tbl, "REALTIME", KeyRef(preset_ref), outcome).data IN
    IF preset_data = None_ THEN default_realtime_model(plugins)
    ELSE
    LET provider == Lower(str(Get(preset_data, "provider", StrC(ProviderAws))))
        model == Get(preset_data, "model", None_)
        voice == Get(preset_data, "voice", None_)
        region == Get(preset_data, "region", None_)
        params == Get(preset_data, "params", EmptyDict)
    IN
    IF provider \in {ProviderAws, <<"a", "m", "a", "z", "o", "n">>,
                     <<"b", "e", "d", "r", "o", "c", "k">>}
    THEN IF "aws" \notin plugins THEN Raise("ImportError")
         ELSE
         LET temperature == Converted(params, "temperature", "float")
             top_p == Converted(params, "top_p", "float")
             max_tokens == Converted(params, "max_tokens", "int")
             failed == FirstRaise(<<temperature, top_p, max_tokens>>)
             given == (IF Truthy(model) THEN "model" :> str(model) ELSE <<>>)
                      @@ (IF Truthy(voice) THEN "voice" :> StrC(str(voice)) ELSE <<>>)
                      @@ (IF Truthy(region) THEN "region" :> StrC(str(region)) ELSE <<>>)
                      @@ Kwarg(params, "temperature", temperature.v)
                      @@ Kwarg(params, "top_p", top_p.v)
                      @@ Kwarg(params, "max_tokens", PInt(max_tokens.v))
             realtime_kwargs == given @@ ("model" :> NovaSonic)
         IN
         IF failed # None_ THEN failed
         ELSE Handle("aws.realtime.RealtimeModel", realtime_kwargs, TRUE)
    ELSE IF provider = ProviderOpenAI
    THEN IF "openai" \notin plugins THEN Raise("ImportError")
         ELSE Handle("openai.realtime.RealtimeModel",
                     "voice" :> (IF Truthy(voice) THEN StrC(str(voice)) ELSE StrC(VoiceMarin)),
                     TRUE)
    ELSE default_realtime_model(plugins)

\* the _resolve_*_model function of a preset type
resolve_model(tbl, preset_type, preset_ref, language, outcome, plugins) ==
    CASE preset_type = "LLM" -> resolve_llm_model(tbl, preset_ref, outcome)
      [] preset_type = "STT" -> resolve_stt_model(tbl, preset_ref, language, outcome)
      [] preset_type = "TTS" -> resolve_tts_model(tbl, preset_ref, outcome)
      [] preset_type = "REALTIME" -> resolve_realtime_model(tbl, preset_ref, outcome, plugins)


(***************************************************************************)
(* Environment of the model resolution                                     *)
(***************************************************************************)
ModelName == <<"n", "o", "v", "a">>
BuilderProviders == {ProviderOpenAI, ProviderDeepgram, ProviderCartesia}

\* the provider a preset type assumes when the preset names none
DefaultProvider(preset_type) ==
    CASE preset_type = "LLM" -> ProviderOpenAI
      [] preset_type = "STT" -> ProviderDeepgram
      [] preset_type = "TTS" -> ProviderCartesia
      [] preset_type = "REALTIME" -> ProviderAws

\* preset ids: a bare model name, and the name behind a provider prefix
BuilderIds == {ModelName}
              \cup {p \o <<sep>> \o ModelName : p \in BuilderProviders, sep \in {"-", "/"}}
BuilderRefs == {None_} \cup {PresetRef(id, None_) : id \in BuilderIds}
\* the presets the store can hold: per type, one under a bare id and one under
\* an id that carries the provider's prefix
StoredIds(preset_type) ==
    {ModelName} \cup (IF preset_type = "REALTIME" THEN {}
                      ELSE {DefaultProvider(preset_type) \o <<"-">> \o ModelName})
BuilderKeys == {PresetKey(ty, Join(id), "1") : ty \in PresetTypes, id \in BuilderIds}
StoredKeys == UNION {{PresetKey(ty, Join(id), "1") : id \in StoredIds(ty)} : ty \in PresetTypes}
BuilderLanguages == {Str("en")}
Plugins == {"aws", "openai"}
\* the plugins installed; only the realtime model imports one
PluginSets(preset_type) == IF preset_type = "REALTIME" THEN SUBSET Plugins ELSE {Plugins}

ModelItem(provider, model) ==
    Dict(("entity_type" :> AttrS("preset")) @@ ("provider" :> AttrSC(provider))
         @@ ("model" :> AttrSC(model)))
BareItem == Dict("entity_type" :> AttrS("preset"))

\* the records a preset of a type can hold
BuilderItems(preset_type) ==
    {BareItem}
    \cup (IF preset_type = "REALTIME"
          THEN {ModelItem(<<"A", "W", "S">>, NovaSonic),
                Dict(("provider" :> AttrSC(ProviderOpenAI)) @@ ("voice" :> AttrS("sage"))),
                Dict("provider" :> AttrSC(ProviderOpenAI)),
                ModelItem(<<"a", "z", "u", "r", "e">>, ModelName)}
          ELSE {ModelItem(DefaultProvider(preset_type), model) :
                   model \in {ModelName,
                              DefaultProvider(preset_type) \o <<"-">> \o ModelName,
                              DefaultProvider(preset_type) \o <<"/">> \o ModelName}})
    \cup (IF preset_type = "LLM"
          THEN {Dict(("model" :> AttrSC(ModelName))
                     @@ ("params" :> AttrM(("temperature" :> AttrN(<<"0", ".", "7">>))
                                           @@ ("max_tokens" :> AttrN(<<"2", "5", "6">>))))),
                Dict(("model" :> AttrSC(ModelName))
                     @@ ("params" :> AttrM("temperature" :> AttrS("hot"))))}
          ELSE {})
    \cup (IF preset_type = "TTS"
          THEN {Dict(("model" :> AttrSC(ModelName)) @@ ("voice_id" :> AttrS("voice-1")))}
          ELSE {})

TypeOfKey(key) == CHOOSE ty \in PresetTypes : key.pk = "PRESET#" \o ty

(***************************************************************************)
(* Actions of the model resolution                                         *)
(***************************************************************************)
\* a preset record is written; the store holds one preset at a time
SeedPreset(key, item) ==
    /\ \A k \in DOMAIN table : table[k] = NoItem
    /\ table' = [table EXCEPT ![key] = item]
    /\ UNCHANGED <<cache, lastResolve, seen, inflight, toolVars, builderVars, limitVars>>

\* one call of _resolve_llm_model, _resolve_stt_model, _resolve_tts_model or
\* _resolve_realtime_model
ResolveModel(preset_type, preset_ref, language, outcome, plugins) ==
    \E r \in {resolve_model(table, preset_type, preset_ref, language, outcome, plugins)} :
    /\ built' = [t |-> "resolve_model", preset_type |-> preset_type,
                 preset_ref |-> preset_ref, language |-> language,
                 plugins |-> plugins,
                 data |-> IF preset_ref = None_ THEN None_
                          ELSE fetch_preset(table, preset_type, KeyRef(preset_ref),
                                            outcome).data,
                 result |-> r]
    /\ UNCHANGED <<profileVars, toolVars, limitVars, pfetch, ctor, decode_call>>

InitBuilderStore ==
    /\ table = [k \in BuilderKeys |-> NoItem]
    /\ cache = <<>>
    /\ lastResolve = NoCall
    /\ seen = <<>>
    /\ inflight = <<>>

InitBuilder == InitBuilderStore /\ InitTools /\ InitLimits

NextBuilder ==
    \/ \E key \in StoredKeys : \E item \in BuilderItems(TypeOfKey(key)) : SeedPreset(key, item)
    \/ \E key \in StoredKeys : DeletePreset(key)
    \/ \E preset_type \in PresetTypes, preset_ref \in BuilderRefs,
          language \in BuilderLanguages, outcome \in StoreOutcomes :
          \E plugins \in PluginSets(preset_type) :
              ResolveModel(preset_type, preset_ref, language, outcome, plugins)

SpecBuilder == InitBuilder /\ [][NextBuilder]_vars

(***************************************************************************)
(* Claims on the fallback of a preset that is not found                    *)
(***************************************************************************)
Resolved == built.t = "resolve_model"
PresetMissed == Resolved /\ built.preset_ref # None_ /\ built.data = None_

\* C24: for each preset type, when the preset fetch returns nothing (the record
\* is missing or the store raised), model resolution does not fail and the
\* handle is constructed with the model name "<default provider>/<ref.id>",
\* ref.id taken without a prefix that already names that provider.
C24_FallbackFromRefId ==
    PresetMissed =>
        /\ ~IsRaise(built.result)
        /\ "model" \in DOMAIN built.result.kwargs
        /\ \E rest \in {built.preset_ref.id,
                        normalize_provider_model_id(built.preset_ref.id,
                                                    DefaultProvider(built.preset_type))} :
              built.result.kwargs["model"] = DefaultProvider(built.preset_type) \o <<"/">> \o rest


(***************************************************************************)
(* Claims on the provider prefix of model ids                              *)
(***************************************************************************)
\* the provider and the id a resolution builds its model string from: those of
\* the preset when it was found, else the type's default and the reference's id
ProviderUsed ==
    IF built.data = None_ THEN DefaultProvider(built.preset_type)
    ELSE str(Get(built.data, "provider", StrC(DefaultProvider(built.preset_type))))
IdUsed ==
    IF built.data = None_ THEN built.preset_ref.id
    ELSE str(Get(built.data, "model", StrC(built.preset_ref.id)))
CarriesPrefix(id, provider) ==
    \E sep \in {"-", "/"} : StartsWith(id, provider \o <<sep>>)
WithoutPrefix(id, provider) == SubSeq(id, Len(provider) + 2, Len(id))

\* C25: when the model id of a found preset, or the id of a reference whose
\* preset is not found, carries the prefix "p-" or "p/" of the provider p in
\* use, the model string passed to the LLM, STT or TTS constructor is "p/<rest>",
\* <rest> being the id without that prefix.
C25_ProviderNamedOnce ==
    (/\ Resolved
     /\ built.preset_type \in {"LLM", "STT", "TTS"}
     /\ built.preset_ref # None_
     /\ ~IsRaise(built.result)
     /\ CarriesPrefix(IdUsed, ProviderUsed))
    => built.result.kwargs["model"]
          = ProviderUsed \o <<"/">> \o WithoutPrefix(IdUsed, ProviderUsed)


(***************************************************************************)
(* session_builder._construct_with_supported_kwargs                        *)
(***************************************************************************)
\* dict.pop(key, None): the dict without the key
Pop(dict, key) == [k \in DOMAIN dict \ {key} |-> dict[k]]

\* the static filtering by inspect.signature(factory); signature is what
\* inspect.signature returns, or the error it raises
static_filter(kwargs, signature) ==
    IF IsRaise(signature) THEN kwargs
    ELSE IF signature.var_keyword THEN kwargs
    ELSE [k \in DOMAIN kwargs \cap signature.parameters |-> kwargs[k]]

\* the locals of a call when it enters `while True`
construct_begin(kwargs, signature) ==
    [t |-> "construct", kwargs |-> kwargs,
     filtered_kwargs |-> static_filter(kwargs, signature),
     attempts |-> 0, status |-> "calling", error |-> None_, result |-> None_]

\* what factory(**filtered_kwargs) does: it returns the object, or raises
UnexpectedKeyword(key) == [t |-> "raise", e |-> "TypeError", unexpected |-> key]
Returns == [t |-> "return"]

\* a variant of the loop body that, after it removed the last parameter, tries
\* the factory once more without parameters
construct_attempt_retry_when_empty(c, outcome) ==
    LET tried == [c EXCEPT !.attempts = c.attempts + 1, !.error = outcome] IN
    IF outcome = Returns
    THEN [tried EXCEPT !.status = "returned", !.error = None_,
                       !.result = [t |-> "object", kwargs |-> c.filtered_kwargs]]
    ELSE IF outcome.e # "TypeError" \/ "unexpected" \notin DOMAIN outcome
    THEN [tried EXCEPT !.status = "raised", !.result = outcome]
    ELSE IF outcome.unexpected \notin DOMAIN c.filtered_kwargs
    THEN [tried EXCEPT !.status = "raised", !.result = outcome]
    ELSE [tried EXCEPT !.filtered_kwargs = Pop(c.filtered_kwargs, outcome.unexpected)]

\* one pass of the `while True` loop: the factory call and the handling of
\* its TypeError
construct_attempt(c, outcome) ==
    LET tried == [c EXCEPT !.attempts = c.attempts + 1, !.error = outcome] IN
    IF outcome = Returns
    THEN [tried EXCEPT !.status = "returned", !.error = None_,
                       !.result = [t |-> "object", kwargs |-> c.filtered_kwargs]]
    ELSE IF outcome.e # "TypeError" \/ "unexpected" \notin DOMAIN outcome
    THEN [tried EXCEPT !.status = "raised", !.result = outcome]
    ELSE IF outcome.unexpected \notin DOMAIN c.filtered_kwargs
    THEN [tried EXCEPT !.status = "raised", !.result = outcome]
    ELSE LET popped == Pop(c.filtered_kwargs, outcome.unexpected) IN
         IF popped = <<>>
         THEN [tried EXCEPT !.filtered_kwargs = popped, !.status = "raised",
                            !.result = outcome]
         ELSE [tried EXCEPT !.filtered_kwargs = popped]

(***************************************************************************)
(* Environment of the constructor call                                     *)
(***************************************************************************)
\* the keyword arguments the resolvers build, and the values they carry
KwargNames == {"model", "temperature", "max_tokens"}
KwargValues ==
    ("model" :> StrC(ProviderOpenAI \o <<"/">> \o ModelName))
    @@ ("temperature" :> PFloat(<<"0", ".", "7">>)) @@ ("max_tokens" :> PInt(256))
\* every resolver passes at least one keyword
KwargDicts == {[k \in names |-> KwargValues[k]] : names \in (SUBSET KwargNames) \ {{}}}
Signatures ==
    {Raise("ValueError")}
    \cup {[t |-> "signature", parameters |-> params \cup more, var_keyword |-> vk] :
             params \in SUBSET KwargNames, more \in {{}, {"kwargs"}}, vk \in BOOLEAN}
\* a factory can reject a keyword it forwards, one the caller never passed included
FactoryOutcomes ==
    {Returns, Raise("TypeError"), Raise("ValueError")}
    \cup {UnexpectedKeyword(key) : key \in KwargNames \cup {"timeout"}}

(***************************************************************************)
(* Actions of the constructor call                                         *)
(***************************************************************************)
\* a call is inside the loop / has returned or raised
Constructing == ctor # NoCall /\ ctor.status = "calling"
Ended == ctor # NoCall /\ ctor.status \in {"returned", "raised"}

\* _construct_with_supported_kwargs is called and filters by the signature
BeginConstruct(kwargs, signature) ==
    /\ ~Constructing
    /\ ctor' = construct_begin(kwargs, signature)
    /\ UNCHANGED <<profileVars, toolVars, limitVars, pfetch, built, decode_call>>

\* one pass of the loop
CallFactory(outcome) ==
    /\ Constructing
    /\ ctor' = construct_attempt(ctor, outcome)
    /\ UNCHANGED <<profileVars, toolVars, limitVars, pfetch, built, decode_call>>

FactoryAnswers == \E outcome \in FactoryOutcomes : CallFactory(outcome)

NextConstruct ==
    \/ \E kwargs \in KwargDicts, signature \in Signatures : BeginConstruct(kwargs, signature)
    \/ FactoryAnswers

\* the factory answers every call
FairSpecConstruct == InitBuilder /\ [][NextConstruct]_vars /\ WF_vars(FactoryAnswers)

(***************************************************************************)
(* Claims on the retry loop of the constructor call                        *)
(***************************************************************************)
SubDict(small, big) ==
    DOMAIN small \subseteq DOMAIN big /\ \A k \in DOMAIN small : small[k] = big[k]

AttemptsBounded ==
    ctor # NoCall =>
        /\ ctor.attempts <= Cardinality(DOMAIN ctor.kwargs)
        /\ SubDict(ctor.filtered_kwargs, ctor.kwargs)
        /\ ctor.status = "returned" =>
              ctor.result.t = "object" /\ SubDict(ctor.result.kwargs, ctor.kwargs)
        /\ ctor.status = "raised" => IsRaise(ctor.result)

RetryRemovesNamed ==
    (Constructing /\ ctor' # ctor) =>
        (/\ ctor'.attempts = ctor.attempts + 1
         /\ ctor'.status = "calling" =>
               /\ "unexpected" \in DOMAIN ctor'.error
               /\ ctor'.error.unexpected \in DOMAIN ctor.filtered_kwargs
               /\ ctor'.filtered_kwargs = Pop(ctor.filtered_kwargs, ctor'.error.unexpected)
         /\ ctor'.status = "returned" => ctor'.result.kwargs = ctor.filtered_kwargs
         /\ ctor'.status = "raised" =>
               /\ ctor'.result = ctor'.error
               /\ \/ "unexpected" \notin DOMAIN ctor'.error
                  \/ ctor'.error.unexpected \notin DOMAIN ctor.filtered_kwargs
                  \/ DOMAIN ctor.filtered_kwargs = {ctor'.error.unexpected})

\* C26: a call of _construct_with_supported_kwargs ends: it makes at most
\* |kwargs| construction attempts, each retry follows the removal of exactly the
\* parameter the "unexpected keyword argument" error names, and the call ends
\* by returning an object built from a subset of the original parameters or by
\* propagating the error (one that names no present parameter, or the one
\* whose parameter was the last).
C26_ConstructTerminates ==
    /\ []AttemptsBounded
    /\ [][RetryRemovesNamed]_vars
    /\ (Constructing ~> Ended)

C26_Witness ==
    /\ Ended
    /\ ctor.status = "returned"
    /\ DOMAIN ctor.kwargs = KwargNames
    /\ ctor.attempts = Cardinality(KwargNames)
    /\ DOMAIN ctor.result.kwargs = {"model"}


(***************************************************************************)
(* The two _dynamodb_item_to_dict decoders on nested items                 *)
(***************************************************************************)
\* a place inside an item: attribute names and list positions, outermost first
Key(name) == [k |-> "key", name |-> name]
Index(i) == [k |-> "index", i |-> i]

\* the tagged value that holds attr at the place path below it
RECURSIVE Wrap(_, _)
Wrap(path, attr) ==
    IF path = <<>> THEN attr
    ELSE IF Head(path).k = "key" THEN AttrM(Head(path).name :> Wrap(Tail(path), attr))
    ELSE AttrL([i \in 1..Head(path).i |->
                  IF i = Head(path).i THEN Wrap(Tail(path), attr) ELSE AttrS("x")])

\* the stored item that holds attr at the place path
ItemWith(path, attr) == Dict(Head(path).name :> Wrap(Tail(path), attr))

Missing == [t |-> "missing"]
\* the decode_call value at the place path of a decode_call item
RECURSIVE Extract(_, _)
Extract(value, path) ==
    IF path = <<>> THEN value
    ELSE IF Head(path).k = "key"
    THEN (IF value.t = "dict" /\ Head(path).name \in DOMAIN value.d
          THEN Extract(value.d[Head(path).name], Tail(path)) ELSE Missing)
    ELSE (IF value.t = "list" /\ Head(path).i \in DOMAIN value.l
          THEN Extract(value.l[Head(path).i], Tail(path)) ELSE Missing)

NumberStrings ==
    {<<"4", "0", "9", "6">>, <<"0", ".", "7">>, <<"0">>, <<"-", "3">>, <<"5", "0">>,
     <<"1", ".", "5">>, <<"0", ".", "0">>, <<"1", "6", "0", "0", "0">>}
Places ==
    {<<Key("n")>>,
     <<Key("m"), Key("n")>>,
     <<Key("m"), Key("m"), Key("n")>>,
     <<Key("l"), Index(1)>>,
     <<Key("l"), Index(2)>>,
     <<Key("l"), Index(1), Key("n")>>,
     <<Key("m"), Key("l"), Index(1)>>}
Decoders == {"profile_resolver", "tools"}

\* one call of _dynamodb_item_to_dict of a module
item_to_dict(decoder, item) ==
    IF decoder = "tools" THEN tools_dynamodb_item_to_dict(item)
    ELSE dynamodb_item_to_dict(item)

DecodeItem(decoder, place, num_str) ==
    /\ decode_call' = [t |-> "decode", decoder |-> decoder, place |-> place,
                   num_str |-> num_str,
                   result |-> item_to_dict(decoder, ItemWith(place, AttrN(num_str)))]
    /\ UNCHANGED <<profileVars, toolVars, limitVars, pfetch, built, ctor>>

NextDecode ==
    \E decoder \in Decoders, place \in Places, num_str \in NumberStrings :
        DecodeItem(decoder, place, num_str)

SpecDecode == InitBuilder /\ [][NextDecode]_vars

(***************************************************************************)
(* Claims on number-tagged values                                          *)
(***************************************************************************)
Decoded == decode_call.t = "decode"
NumberOf(num_str) ==
    IF HasDot(num_str) THEN PFloat(num_str) ELSE PInt(ParseInt(num_str))

\* C27: a number-tagged value {"N": s} decodes to a number wherever it stands
\* in the item (top-level attribute, inside a map, element of a list): to the
\* integer s names when s has no decimal point, else to the float.
C27_NumbersDecodeEverywhere ==
    Decoded => Extract(decode_call.result, decode_call.place) = NumberOf(decode_call.num_str)


(***************************************************************************)
(* resolve_profile on identifiers that contain ':'                         *)
(***************************************************************************)
\* (profile_id, version) pairs of room metadata; the first two differ only in
\* where the ':' stands
ColonPairs == {<<"support:eu", "1">>, <<"support", "eu:1">>, <<"support", "1">>}
ColonBodyKeys == {BodyKey(t, pair[1], pair[2]) : t \in Tenants, pair \in ColonPairs}

InitColon ==
    /\ table = [k \in ColonBodyKeys |-> NoItem]
    /\ cache = <<>>
    /\ lastResolve = NoCall
    /\ seen = <<>>
    /\ inflight = <<>>

InitColonIds == InitColon /\ InitTools /\ InitLimits

NextColon ==
    \/ \E key \in ColonBodyKeys : \E item \in {SeededItem, EditedItem} : PutItem(key, item)
    \/ \E key \in ColonBodyKeys : DeleteItem(key)
    \/ \E tenant_id \in Tenants, pair \in ColonPairs, outcome \in StoreOutcomes :
          ResolveProfile(tenant_id, Str(pair[1]), Str(pair[2]),
                         [default_ptr |-> "ok", latest_ptr |-> "ok", body |-> outcome])

SpecColon == InitColonIds /\ [][NextColon]_vars

(***************************************************************************)
(* Claims on the separation of cache entries                               *)
(***************************************************************************)
ServedFromCache ==
    lastResolve # NoCall /\ lastResolve.degraded = "none" /\ ~lastResolve.store_read

\* C28: a resolve_profile call that is answered from the cache returns the
\* record an earlier call for the same (tenant_id, profile_id, version) triple
\* read, never one cached by a call for a different triple, also when the
\* identifiers contain ':'.
C28_CacheEntryPerTriple ==
    ServedFromCache =>
        /\ lastResolve.prior # NoCall
        /\ lastResolve.result = lastResolve.prior


(***************************************************************************)
(* Claims on response bodies that are no JSON object                       *)
(***************************************************************************)
AnsweredWithAllowlist ==
    /\ Called
    /\ tcall.request # None_
    /\ compiled.response_allowlist # <<>>
    /\ tcall.transport.kind = "response"
    /\ tcall.result.t = "text"
    /\ tcall.result.kind = "http"

\* C29: for a tool with a non-empty response_allowlist, the text returned for
\* any response body (cut off at max_response_bytes, not valid JSON, or a JSON
\* value that is no object included) carries nothing of the response but the
\* status and the values of allow-listed top-level keys.
C29_OnlyAllowlistedContent ==
    AnsweredWithAllowlist =>
        /\ DOMAIN tcall.result.detail = {"status", "json"}
        /\ IsDict(tcall.result.detail.json)
        /\ DOMAIN tcall.result.detail.json.d \subseteq AllowedResponseKeys


(***************************************************************************)
(* resolve_tools on references that share a tool_id                        *)
(***************************************************************************)
VersionedToolKeys ==
    {HttpToolKey(ToolGeo, <<"1">>), HttpToolKey(ToolGeo, <<"2">>),
     HttpToolKey(ToolWeather, <<"1">>)}
\* a definition that names its own http_tool_id
NamedToolItem(tool_id) == Dict(ValidToolItem.d @@ ("http_tool_id" :> AttrSC(tool_id)))
VersionedItemsFor(key) ==
    IF key = HttpToolKey(ToolWeather, <<"1">>) THEN {ValidToolItem, NamedToolItem(ToolGeo)}
    ELSE {ValidToolItem}
IdGeo2 == IdGeo \o <<"@", "2">>
\* tool_ids of a profile: one or two different identifiers
DistinctIdLists ==
    LET ids == {IdHangUp, IdGeo, IdGeo2, IdWeather} IN
    {<<a>> : a \in ids} \cup {pair \in ids \X ids : pair[1] # pair[2]}

InitVersionedStore ==
    /\ table = [k \in VersionedToolKeys |-> NoItem]
    /\ cache = <<>>
    /\ lastResolve = NoCall
    /\ seen = <<>>
    /\ inflight = <<>>

InitToolNames == InitVersionedStore /\ InitTools /\ InitLimits

NextToolNames ==
    \/ \E key \in VersionedToolKeys : \E item \in VersionedItemsFor(key) : PutTool(key, item)
    \/ \E key \in VersionedToolKeys : DeleteTool(key)
    \/ \E tool_ids \in DistinctIdLists : \E outcomes \in [DOMAIN tool_ids -> StoreOutcomes] :
          ResolveTools(tool_ids, outcomes)

SpecToolNames == InitToolNames /\ [][NextToolNames]_vars

(***************************************************************************)
(* Claims on the names of the resolved tools                               *)
(***************************************************************************)
ResolvedTools == tresolve # NoCall /\ tresolve.result.t = "tools"

\* C30: the tools one resolve_tools call returns for different requested ids
\* have pairwise different names.
C30_ToolNamesDistinct ==
    ResolvedTools =>
        \A i, j \in DOMAIN tresolve.result.tools :
            i # j => tresolve.result.tools[i].name # tresolve.result.tools[j].name

====
